---------------------------- MODULE Spec2Model ----------------------------
(***************************************************************************)
(* A model of the Vulkan tutorial application (class Application).         *)
(*                                                                         *)
(* Spec        the life of the application: InitializeVulkan, MainLoop,    *)
(*             DrawFrame, RecreateSwapChain, Cleanup, together with the    *)
(*             GPU that completes submitted work and signals fences.       *)
(* SpecTexture the command buffer recorded by CreateTextureImages          *)
(*             (TransitionImageLayout, CopyBufferToImage,                  *)
(*             GenerateMipMaps_Blit) and its execution.                    *)
(* SpecPick    PickPhysicalDevice over a list of enumerated devices.       *)
(* SpecObjects the member handles and per-image vectors from               *)
(*             InitializeVulkan to the second Cleanup.                     *)
(* SpecSingleTime  ExecuteSingleTimeCommands and the staging buffer of its *)
(*             callers.                                                    *)
(* SpecSwapChain   CreateDevice, CreateSwapChain and ChoosePresentMode.    *)
(* SpecModel   LoadModel's removal of duplicate vertices.                  *)
(***************************************************************************)
EXTENDS Integers, Sequences, FiniteSets, TLC

VARIABLES
  \* ---- Application (Spec) ----
  pc,                    \* position of the main thread
  step,                  \* index into InitializeVulkanOrder / RecreateSwapChainOrder
  live,                  \* kinds of objects whose handles are non-null
  numImages,             \* swap_chain_images_.size()
  current_frame_,
  frame_buffer_resized_,
  fenceSignaled,         \* state of in_flight_fences_[slot]
  images_in_flight_,     \* sequence of fence handles, indexed by image index + 1
  pending,               \* submissions the GPU has not finished
  image_index,           \* DrawFrame's local image_index
  ops,                   \* acquire / submit / present calls of the current DrawFrame
  prevSlot,              \* slot of the previous submitted frame (NoSlot: none)
  retTo,                 \* where RecreateSwapChain returns to
  winZero,               \* the window framebuffer has a zero width or height
  rcZero,                \* RecreateSwapChain's local width == 0 || height == 0
  present_result,        \* DrawFrame's local present_result ("none": not set)
  acquire_result,        \* DrawFrame's local acquire_result ("none": not set)
  \* ---- CreateTextureImages (SpecTexture) ----
  tex,
  \* ---- PickPhysicalDevice (SpecPick) ----
  pick,
  \* ---- RateDevice (SpecRate) ----
  rate,
  \* ---- choose_surface_format (SpecFormat) ----
  surf,
  \* ---- object ownership: InitializeVulkan .. Cleanup (SpecObjects) ----
  obj,
  \* ---- ExecuteSingleTimeCommands (SpecSingleTime) ----
  stc,
  \* ---- CreateDevice, CreateSwapChain, ChoosePresentMode (SpecSwapChain) ----
  swap,
  \* ---- LoadModel (SpecModel) ----
  model

appVars == <<pc, step, live, numImages, current_frame_, frame_buffer_resized_,
             fenceSignaled, images_in_flight_, pending, image_index, ops,
             prevSlot, retTo, winZero, rcZero, present_result,
              acquire_result>>
\* the variables of the specifications added after SpecFormat
moreVars == <<obj, stc, swap, model>>

vars == <<appVars, tex, pick, rate,
                 surf, moreVars>>

---------------------------------------------------------------------------
\* Bounds of the model.

\* the swap chain of a (re)creation has 1 .. MaxImages images
MaxImages == 3

\* the texture is 1 .. MaxTexDim texels wide and high
MaxTexDim == 8

\* vkEnumeratePhysicalDevices returns 0 .. MaxDevices devices
MaxDevices == 2

\* a rated device has 0 .. MaxFamilies queue families
MaxFamilies == 2

\* a surface has 1 .. MaxFormats surface formats
MaxFormats == 3

\* the swap chains of the runs checked for progress have 1 .. MaxLiveImages
\* images
MaxLiveImages == 2

\* the texture uploaded through a single-time command buffer has
\* 1 .. MaxMipLevels mip levels
MaxMipLevels == 4

\* a surface reports image counts within MaxNearCount of the ends of the ui32
\* range
MaxNearCount == 2

\* a surface has 1 .. MaxPresentModes present modes
MaxPresentModes == 2

\* the queue family indices of the picked device are 0 .. MaxFamilyIndex
MaxFamilyIndex == 1

\* the shapes of the model have 0 .. MaxFaceIndices face indices in all
MaxFaceIndices == 3

---------------------------------------------------------------------------
\* Program constants.

kMaxFramesInFlight == 2

\* the null handle; fence handle s + 1 stands for in_flight_fences_[s]
VK_NULL_HANDLE == 0

NoSlot == 0 - 1

Slots == 0 .. (kMaxFramesInFlight - 1)

FenceOf(slot) == slot + 1

\* a value that is the handle of no fence
GarbageHandle == kMaxFramesInFlight + 1

ImageCounts == 1 .. MaxImages

---------------------------------------------------------------------------
\* Object kinds, named after the function that creates them.

\* InitializeVulkan with CreateGraphicsPipeline called before CreateRenderPass
InitializeVulkanOrder_PipelineFirst ==
  << "instance", "debug_messenger", "surface", "physical_device", "device",
     "swap_chain", "image_views", "descriptor_set_layout", "pipeline",
     "render_pass", "command_pools", "texture", "color", "depth",
     "framebuffers", "model", "vertex_buffer", "index_buffer",
     "uniform_buffers", "descriptor_pool", "descriptor_sets",
     "command_buffers", "sync_objects" >>

InitializeVulkanOrder ==
  << "instance", "debug_messenger", "surface", "physical_device", "device",
     "swap_chain", "image_views", "render_pass", "descriptor_set_layout",
     "pipeline", "command_pools", "texture", "color", "depth", "framebuffers",
     "model", "vertex_buffer", "index_buffer", "uniform_buffers",
     "descriptor_pool", "descriptor_sets", "command_buffers", "sync_objects" >>

\* RecreateSwapChain without the call of CreateColorResources
RecreateSwapChainOrder_NoColorResources ==
  << "swap_chain", "image_views", "render_pass", "pipeline", "depth",
     "framebuffers", "uniform_buffers", "descriptor_pool", "descriptor_sets",
     "command_buffers" >>

RecreateSwapChainOrder ==
  << "swap_chain", "image_views", "render_pass", "pipeline", "color", "depth",
     "framebuffers", "uniform_buffers", "descriptor_pool", "descriptor_sets",
     "command_buffers" >>

\* what CleanupSwapChain destroys (descriptor sets go with their pool)
SwapChainKinds ==
  { "depth", "color", "framebuffers", "command_buffers", "pipeline",
    "render_pass", "image_views", "swap_chain", "uniform_buffers",
    "descriptor_pool", "descriptor_sets" }

\* what Cleanup destroys after CleanupSwapChain
CleanupKinds ==
  { "texture", "descriptor_set_layout", "vertex_buffer", "index_buffer",
    "sync_objects", "command_pools", "device", "debug_messenger", "surface",
    "instance" }

NoOps == << >>

\* one Vulkan call of DrawFrame, with the handles passed to it; "before" is
\* the set of submissions pending on the device when the call was made
Op(name, wait, signal, fence, image, before) ==
  [op |-> name, wait |-> wait, signal |-> signal, fence |-> fence,
   image |-> image, before |-> before]

image_available_semaphores_(slot) == << "image_available", slot >>
render_finished_semaphores_(slot) == << "render_finished", slot >>
NoSemaphore == << "none", NoSlot >>

AcquireResults ==
  { "VK_SUCCESS", "VK_SUBOPTIMAL_KHR", "VK_ERROR_OUT_OF_DATE_KHR",
    "VK_ERROR_SURFACE_LOST_KHR" }

PresentResults ==
  { "VK_SUCCESS", "VK_SUBOPTIMAL_KHR", "VK_ERROR_OUT_OF_DATE_KHR",
    "VK_ERROR_SURFACE_LOST_KHR" }

IdleTex == [phase |-> "idle"]
IdlePick == [phase |-> "idle"]
IdleRate == [phase |-> "idle"]
IdleSurf == [phase |-> "idle"]
IdleObj == [phase |-> "idle"]
IdleStc == [phase |-> "idle"]
IdleSwap == [phase |-> "idle"]
IdleModel == [phase |-> "idle"]

IdleMore ==
  obj = IdleObj /\ stc = IdleStc /\ swap = IdleSwap /\ model = IdleModel

---------------------------------------------------------------------------
\* Application::Application and Run up to the call of InitializeVulkan.

Init ==
  /\ pc = "init"
  /\ step = 1
  /\ live = {}
  /\ numImages = 0
  /\ current_frame_ = 0
  /\ frame_buffer_resized_ = FALSE
  /\ fenceSignaled = [s \in Slots |-> FALSE]
  /\ images_in_flight_ = << >>
  /\ pending = {}
  /\ image_index = 0
  /\ ops = NoOps
  /\ prevSlot = NoSlot
  /\ retTo = "loop"
  /\ winZero = FALSE
  /\ rcZero = FALSE
  /\ present_result = "none"
  /\ acquire_result = "none"
  /\ tex = IdleTex
  /\ pick = IdlePick
  /\ rate = IdleRate
  /\ surf = IdleSurf
  /\ IdleMore

UnchangedFrame ==
  UNCHANGED <<current_frame_, frame_buffer_resized_, fenceSignaled,
              images_in_flight_, pending, image_index, ops, prevSlot, retTo,
              winZero, rcZero, present_result,
              acquire_result>>

\* the effect of one Create* call of kind k on the object counts
CreateEffect(k, n) ==
  /\ numImages' = IF k = "swap_chain" THEN n ELSE numImages
  /\ live' = live \cup {k}

\* One call of InitializeVulkan's body. A call that fails throws (VkWrap); the
\* exception leaves Run and main's try block, whose unwinding runs ~Application.
InitializeVulkan ==
  /\ pc = "init"
  /\ \E ok \in BOOLEAN, n \in ImageCounts :
       LET k == InitializeVulkanOrder[step] IN
       IF ~ok
       THEN /\ pc' = "dtor"
            /\ UNCHANGED <<step, live, numImages, fenceSignaled,
                           images_in_flight_>>
       ELSE /\ CreateEffect(k, n)
            /\ IF k = "sync_objects"
               THEN /\ fenceSignaled' = [s \in Slots |-> TRUE]
                    /\ images_in_flight_' =
                         [i \in 1 .. numImages |-> VK_NULL_HANDLE]
               ELSE UNCHANGED <<fenceSignaled, images_in_flight_>>
            /\ IF step = Len(InitializeVulkanOrder)
               THEN pc' = "loop" /\ step' = 1
               ELSE pc' = "init" /\ step' = step + 1
  /\ UNCHANGED <<current_frame_, frame_buffer_resized_, pending, image_index,
                 ops, prevSlot, retTo, winZero, rcZero, present_result,
                 acquire_result, tex,
                 pick, rate, surf, moreVars>>

\* The window events delivered by glfwPollEvents / glfwWaitEvents: the
\* framebuffer may be resized (possibly to or from a zero size).
FrameBufferResizeCallback(resized) ==
  frame_buffer_resized_' = (IF resized THEN TRUE ELSE frame_buffer_resized_)

WindowEvents ==
  \E resized \in BOOLEAN, zero \in BOOLEAN :
    /\ (zero # winZero) => resized
    /\ winZero' = zero
    /\ FrameBufferResizeCallback(resized)

\* One iteration of MainLoop up to the call of DrawFrame.
MainLoop ==
  /\ pc = "loop"
  /\ \E close \in BOOLEAN :
       IF close
       THEN /\ pc' = "run_cleanup"
            /\ UNCHANGED <<winZero, frame_buffer_resized_>>
       ELSE /\ pc' = "df_begin"
            /\ WindowEvents
  /\ UNCHANGED <<step, live, numImages, current_frame_, fenceSignaled,
                 images_in_flight_, pending, image_index, ops, prevSlot,
                 retTo, rcZero, present_result,
                 acquire_result, tex, pick, rate,
                 surf, moreVars>>

\* The device finishes one submission and signals its fence.
GpuComplete ==
  /\ \E p \in pending :
       /\ pending' = pending \ {p}
       /\ fenceSignaled' = [fenceSignaled EXCEPT ![p.slot] = TRUE]
  /\ UNCHANGED <<pc, step, live, numImages, current_frame_,
                 frame_buffer_resized_, images_in_flight_, image_index, ops,
                 prevSlot, retTo, winZero, rcZero, present_result,
                 acquire_result, tex, pick,
                 rate, surf, moreVars>>

\* vkWaitForFences(fence, UINT64_MAX) can return VK_SUCCESS; what it does
\* with a handle that is no fence is undefined, it may return
WaitForFenceDone(fence) ==
  IF fence \in {VK_NULL_HANDLE, GarbageHandle}
  THEN TRUE
  ELSE fenceSignaled[fence - 1]

\* DrawFrame without the wait on the slot's fence
FrameFenceWaitDone_NoWait(slot) == TRUE

\* the wait at the start of DrawFrame, on in_flight_fences_[current_frame_]
FrameFenceWaitDone(slot) == WaitForFenceDone(FenceOf(slot))

\* RecreateSwapChain is entered: the first glfwGetFramebufferSize
EnterRecreateSwapChain(ret) ==
  /\ pc' = "rc_size"
  /\ rcZero' = winZero
  /\ retTo' = ret

\* DrawFrame: the wait on the slot's fence and the call of
\* vkAcquireNextImageKHR.
DrawFrame_Acquire ==
  /\ pc = "df_begin"
  /\ \E waitOk \in BOOLEAN :
       IF ~waitOk
       THEN /\ pc' = "dtor"
            /\ UNCHANGED <<image_index, ops, acquire_result>>
       ELSE /\ FrameFenceWaitDone(current_frame_)
            /\ \E res \in AcquireResults, idx \in 0 .. (numImages - 1) :
                 /\ acquire_result' = res
                 /\ pc' = "df_acquired"
                 /\ IF res \in {"VK_SUCCESS", "VK_SUBOPTIMAL_KHR"}
                    THEN /\ image_index' = idx
                         /\ ops' = << Op("acquire", NoSemaphore,
                                         image_available_semaphores_(current_frame_),
                                         VK_NULL_HANDLE, idx, pending) >>
                    ELSE /\ ops' = NoOps
                         /\ UNCHANGED image_index
  /\ UNCHANGED <<step, live, numImages, current_frame_, frame_buffer_resized_,
                 fenceSignaled, images_in_flight_, pending, prevSlot, retTo,
                 winZero, rcZero, present_result, tex, pick, rate,
                 surf, moreVars>>

\* a switch whose out-of-date case falls through to the rest of DrawFrame
AcquireOutcome_FallsThrough(res) ==
  CASE res \in {"VK_SUCCESS", "VK_SUBOPTIMAL_KHR",
                "VK_ERROR_OUT_OF_DATE_KHR"} -> "continue"
    [] OTHER -> "throw"

\* the switch on acquire_result
AcquireOutcome(res) ==
  CASE res \in {"VK_SUCCESS", "VK_SUBOPTIMAL_KHR"} -> "continue"
    [] res = "VK_ERROR_OUT_OF_DATE_KHR" -> "recreate_and_return"
    [] OTHER -> "throw"

\* DrawFrame: the switch on acquire_result; acquire_result goes out of scope
\* at the end of its block.
DrawFrame_AcquireResult ==
  /\ pc = "df_acquired"
  /\ CASE AcquireOutcome(acquire_result) = "continue" ->
            /\ pc' = "df_image"
            /\ UNCHANGED <<retTo, rcZero>>
       [] AcquireOutcome(acquire_result) = "recreate_and_return" ->
            EnterRecreateSwapChain("loop")
       [] OTHER ->
            /\ pc' = "dtor"
            /\ UNCHANGED <<retTo, rcZero>>
  /\ acquire_result' = "none"
  /\ UNCHANGED <<step, live, numImages, current_frame_, frame_buffer_resized_,
                 fenceSignaled, images_in_flight_, pending, image_index, ops,
                 prevSlot, winZero, present_result, tex, pick, rate,
                 surf, moreVars>>

\* the value read by images_in_flight_[image_index]: an index past the end of
\* the vector reads whatever lies behind its storage
ImageFence(idx) ==
  IF idx < Len(images_in_flight_)
  THEN { images_in_flight_[idx + 1] }
  ELSE { VK_NULL_HANDLE, GarbageHandle } \cup { FenceOf(s) : s \in Slots }

\* images_in_flight_[image_index] = in_flight_fences_[current_frame_]; a
\* write past the end of the vector does not change the vector
MarkImageInFlight(idx, fence) ==
  IF idx < Len(images_in_flight_)
  THEN [images_in_flight_ EXCEPT ![idx + 1] = fence]
  ELSE images_in_flight_

\* the fence DrawFrame waits on before it touches the image's resources
ImageWaitDone(fence) == WaitForFenceDone(fence)

SubmitOp(slot, idx) ==
  Op("submit", image_available_semaphores_(slot),
     render_finished_semaphores_(slot), FenceOf(slot), idx, pending)

\* a present that waits on the semaphore of the acquisition
PresentOp_WaitsImageAvailable(slot, idx) ==
  Op("present", image_available_semaphores_(slot), NoSemaphore,
     VK_NULL_HANDLE, idx, pending)

PresentOp(slot, idx) ==
  Op("present", render_finished_semaphores_(slot), NoSemaphore,
     VK_NULL_HANDLE, idx, pending)

UpdateUniformBuffer(idx) ==
  Op("update_uniform_buffer", NoSemaphore, NoSemaphore, VK_NULL_HANDLE, idx,
     pending)

\* a test that does not look at frame_buffer_resized_
PresentNeedsRecreate_IgnoresResize(res) ==
  \/ res = "VK_ERROR_OUT_OF_DATE_KHR"
  \/ res = "VK_SUBOPTIMAL_KHR"

\* the test that follows vkQueuePresentKHR
PresentNeedsRecreate(res) ==
  \/ res = "VK_ERROR_OUT_OF_DATE_KHR"
  \/ res = "VK_SUBOPTIMAL_KHR"
  \/ frame_buffer_resized_

\* DrawFrame from the wait on the image's fence to the return of
\* vkQueuePresentKHR.
DrawFrame_Submit ==
  /\ pc = "df_image"
  /\ \E fence \in ImageFence(image_index), waitOk \in BOOLEAN,
        submitOk \in BOOLEAN, res \in PresentResults :
       LET slot == current_frame_
           marked == MarkImageInFlight(image_index, FenceOf(slot))
           ubo == UpdateUniformBuffer(image_index)
       IN
       IF fence # VK_NULL_HANDLE /\ ~waitOk
       THEN \* vkWaitForFences failed
            /\ pc' = "dtor"
            /\ UNCHANGED <<images_in_flight_, fenceSignaled, pending, ops,
                           prevSlot, present_result>>
       ELSE /\ ImageWaitDone(fence)
            /\ images_in_flight_' = marked
            /\ fenceSignaled' = [fenceSignaled EXCEPT ![slot] = FALSE]
            /\ IF ~submitOk
               THEN \* vkQueueSubmit failed
                    /\ pc' = "dtor"
                    /\ ops' = ops \o << ubo >>
                    /\ UNCHANGED <<pending, prevSlot, present_result>>
               ELSE /\ pending' = pending \cup
                                    {[slot |-> slot, image |-> image_index]}
                    /\ prevSlot' = slot
                    /\ ops' = ops \o << ubo, SubmitOp(slot, image_index),
                                        PresentOp(slot, image_index) >>
                    /\ present_result' = res
                    /\ pc' = "df_present"
  /\ UNCHANGED <<step, live, numImages, current_frame_,
                 frame_buffer_resized_, image_index, retTo, winZero, rcZero,
                 acquire_result, tex, pick, rate,
                 surf, moreVars>>

\* DrawFrame: the handling of the result of vkQueuePresentKHR; present_result
\* goes out of scope at the end of its block.
DrawFrame_Present ==
  /\ pc = "df_present"
  /\ IF PresentNeedsRecreate(present_result)
     THEN /\ frame_buffer_resized_' = FALSE
          /\ EnterRecreateSwapChain("df_end")
     ELSE /\ pc' = IF present_result # "VK_SUCCESS" THEN "dtor" ELSE "df_end"
          /\ UNCHANGED <<frame_buffer_resized_, retTo, rcZero>>
  /\ present_result' = "none"
  /\ UNCHANGED <<step, live, numImages, current_frame_, fenceSignaled,
                 images_in_flight_, pending, image_index, ops, prevSlot,
                 winZero, acquire_result, tex, pick, rate,
                 surf, moreVars>>

\* vkDeviceWaitIdle can return VK_SUCCESS
DeviceIdle == pending = {}

\* current_frame_ is not advanced
NextFrame_Stuck(slot) == slot

\* the slot of the next frame
NextFrame(slot) == (slot + 1) % kMaxFramesInFlight

\* DrawFrame's last two statements: vkDeviceWaitIdle, whose result is
\* ignored, and the advance of current_frame_.
DrawFrame_End ==
  /\ pc = "df_end"
  /\ \E idleOk \in BOOLEAN : idleOk => DeviceIdle
  /\ current_frame_' = NextFrame(current_frame_)
  /\ pc' = "loop"
  /\ UNCHANGED <<step, live, numImages, frame_buffer_resized_, fenceSignaled,
                 images_in_flight_, pending, image_index, ops, prevSlot, retTo,
                 winZero, rcZero, present_result,
                 acquire_result, tex, pick, rate,
                 surf, moreVars>>

\* RecreateSwapChain's loop body while the local size is zero:
\* glfwGetFramebufferSize, then glfwWaitEvents.
RecreateSwapChain_WaitEvents ==
  /\ pc = "rc_size"
  /\ rcZero
  /\ rcZero' = winZero
  /\ WindowEvents
  /\ UNCHANGED <<pc, step, live, numImages, current_frame_, fenceSignaled,
                 images_in_flight_, pending, image_index, ops, prevSlot,
                 retTo, present_result, acquire_result, tex, pick, rate,
                 surf, moreVars>>

\* RecreateSwapChain without vkDeviceWaitIdle
RecreateWaitDone_NoWait == TRUE

\* the wait RecreateSwapChain makes before it destroys anything
RecreateWaitDone == DeviceIdle

\* RecreateSwapChain: VkWrap(vkDeviceWaitIdle)(device_)
RecreateSwapChain_WaitIdle ==
  /\ pc = "rc_size"
  /\ ~rcZero
  /\ \E idleOk \in BOOLEAN :
       IF idleOk
       THEN RecreateWaitDone /\ pc' = "rc_cleanup"
       ELSE pc' = "dtor"
  /\ UNCHANGED <<step, live, numImages, current_frame_, frame_buffer_resized_,
                 fenceSignaled, images_in_flight_, pending, image_index, ops,
                 prevSlot, retTo, winZero, rcZero, present_result,
                 acquire_result, tex, pick,
                 rate, surf, moreVars>>

CleanupSwapChain(objs) == objs \ SwapChainKinds

\* RecreateSwapChain: the call of CleanupSwapChain
RecreateSwapChain_Cleanup ==
  /\ pc = "rc_cleanup"
  /\ live' = CleanupSwapChain(live)
  /\ pc' = "rc_create"
  /\ step' = 1
  /\ UNCHANGED <<numImages>>
  /\ UnchangedFrame
  /\ UNCHANGED <<tex, pick, rate,
                 surf, moreVars>>

\* RecreateSwapChain: one Create* call
RecreateSwapChain_Create ==
  /\ pc = "rc_create"
  /\ \E ok \in BOOLEAN, n \in ImageCounts :
       LET k == RecreateSwapChainOrder[step] IN
       IF ~ok
       THEN /\ pc' = "dtor"
            /\ UNCHANGED <<step, live, numImages>>
       ELSE /\ CreateEffect(k, n)
            /\ IF step = Len(RecreateSwapChainOrder)
               THEN pc' = retTo /\ step' = 1
               ELSE pc' = "rc_create" /\ step' = step + 1
  /\ UnchangedFrame
  /\ UNCHANGED <<tex, pick, rate,
                 surf, moreVars>>

\* Cleanup, called at the end of Run and again by ~Application
Cleanup ==
  /\ pc \in {"run_cleanup", "dtor"}
  /\ live' = CleanupSwapChain(live) \ CleanupKinds
  /\ pc' = IF pc = "run_cleanup" THEN "dtor" ELSE "done"
  /\ UNCHANGED <<step, numImages>>
  /\ UnchangedFrame
  /\ UNCHANGED <<tex, pick, rate,
                 surf, moreVars>>

Next ==
  \/ InitializeVulkan
  \/ MainLoop
  \/ GpuComplete
  \/ DrawFrame_Acquire
  \/ DrawFrame_AcquireResult
  \/ DrawFrame_Submit
  \/ DrawFrame_Present
  \/ DrawFrame_End
  \/ RecreateSwapChain_WaitEvents
  \/ RecreateSwapChain_WaitIdle
  \/ RecreateSwapChain_Cleanup
  \/ RecreateSwapChain_Create
  \/ Cleanup

Spec == Init /\ [][Next]_vars

\* the runs in which the main thread and the device keep running
NextLive == Next /\ numImages' <= MaxLiveImages

SpecLive == Init /\ [][NextLive]_vars /\ WF_vars(NextLive)

---------------------------------------------------------------------------
\* CreateTextureImages: the single-time command buffer that uploads the
\* texture and generates its mip chain (SpecTexture).

ImageLayouts ==
  { "UNDEFINED", "GENERAL", "COLOR_ATTACHMENT_OPTIMAL",
    "DEPTH_STENCIL_ATTACHMENT_OPTIMAL", "DEPTH_STENCIL_READ_ONLY_OPTIMAL",
    "SHADER_READ_ONLY_OPTIMAL", "TRANSFER_SRC_OPTIMAL",
    "TRANSFER_DST_OPTIMAL", "PREINITIALIZED", "PRESENT_SRC_KHR" }

Max(a, b) == IF a > b THEN a ELSE b

RECURSIVE FloorLog2(_)
\* floor(log2(n)) for n >= 1
FloorLog2(n) == IF n <= 1 THEN 0 ELSE 1 + FloorLog2(n \div 2)

\* texture_mip_levels_ = 1 + floor(log2(max(width, height)))
MipLevels(width, height) == 1 + FloorLog2(Max(width, height))

\* vkCmdPipelineBarrier with one image memory barrier
Barrier(base, count, old, new) ==
  [cmd |-> "barrier", base |-> base, count |-> count, old |-> old,
   new |-> new, src |-> 0, dst |-> 0, sw |-> 0, sh |-> 0, dw |-> 0, dh |-> 0]

\* vkCmdCopyBufferToImage into mip level 0
CopyBufferToImage(width, height) ==
  [cmd |-> "copy", base |-> 0, count |-> 1, old |-> "TRANSFER_DST_OPTIMAL",
   new |-> "TRANSFER_DST_OPTIMAL", src |-> 0, dst |-> 0, sw |-> 0, sh |-> 0,
   dw |-> width, dh |-> height]

\* vkCmdBlitImage from level src (TRANSFER_SRC) to level dst (TRANSFER_DST)
Blit(src, dst, sw, sh, dw, dh) ==
  [cmd |-> "blit", base |-> 0, count |-> 1, old |-> "TRANSFER_SRC_OPTIMAL",
   new |-> "TRANSFER_DST_OPTIMAL", src |-> src, dst |-> dst, sw |-> sw,
   sh |-> sh, dw |-> dw, dh |-> dh]

SupportedTransitions ==
  { << "UNDEFINED", "TRANSFER_DST_OPTIMAL" >>,
    << "UNDEFINED", "DEPTH_STENCIL_ATTACHMENT_OPTIMAL" >>,
    << "TRANSFER_DST_OPTIMAL", "SHADER_READ_ONLY_OPTIMAL" >> }

\* a TransitionImageLayout that accepts every pair of layouts
TransitionImageLayout_NoThrow(old_layout, new_layout, mip_levels) ==
  [thrown |-> "none",
   cmds |-> << Barrier(0, mip_levels, old_layout, new_layout) >>]

\* TransitionImageLayout: the exception it throws and the commands it records
TransitionImageLayout(old_layout, new_layout, mip_levels) ==
  IF \/ (old_layout = "UNDEFINED" /\ new_layout = "TRANSFER_DST_OPTIMAL")
     \/ (old_layout = "UNDEFINED"
           /\ new_layout = "DEPTH_STENCIL_ATTACHMENT_OPTIMAL")
     \/ (old_layout = "TRANSFER_DST_OPTIMAL"
           /\ new_layout = "SHADER_READ_ONLY_OPTIMAL")
  THEN [thrown |-> "none",
        cmds |-> << Barrier(0, mip_levels, old_layout, new_layout) >>]
  ELSE [thrown |-> "std::invalid_argument", cmds |-> << >>]

\* the extent of the next mip level without the clamp to 1
HalfExtent_NoClamp(extent) == extent \div 2

\* std::max(extent / 2, 1)
HalfExtent(extent) == Max(extent \div 2, 1)

\* the loop body of GenerateMipMaps_Blit without its second barrier
MipLevelCommands_NoReadOnly(mip_level, mip_width, mip_height) ==
  << Barrier(mip_level - 1, 1, "TRANSFER_DST_OPTIMAL", "TRANSFER_SRC_OPTIMAL"),
     Blit(mip_level - 1, mip_level, mip_width, mip_height,
          HalfExtent(mip_width), HalfExtent(mip_height)) >>

\* one iteration of the loop of GenerateMipMaps_Blit
MipLevelCommands(mip_level, mip_width, mip_height) ==
  << Barrier(mip_level - 1, 1, "TRANSFER_DST_OPTIMAL", "TRANSFER_SRC_OPTIMAL"),
     Blit(mip_level - 1, mip_level, mip_width, mip_height,
          HalfExtent(mip_width), HalfExtent(mip_height)),
     Barrier(mip_level - 1, 1, "TRANSFER_SRC_OPTIMAL",
             "SHADER_READ_ONLY_OPTIMAL") >>

RECURSIVE MipLoop(_, _, _, _)
\* the loop of GenerateMipMaps_Blit from mip_level on
MipLoop(mip_level, mip_levels, mip_width, mip_height) ==
  IF mip_level < mip_levels
  THEN MipLevelCommands(mip_level, mip_width, mip_height)
         \o MipLoop(mip_level + 1, mip_levels, HalfExtent(mip_width),
                    HalfExtent(mip_height))
  ELSE << >>

GenerateMipMaps_Blit(width, height, mip_levels) ==
  MipLoop(1, mip_levels, width, height)
    \o << Barrier(mip_levels - 1, 1, "TRANSFER_DST_OPTIMAL",
                  "SHADER_READ_ONLY_OPTIMAL") >>

\* the layout the descriptor sets declare for the texture
DescriptorImageLayout == "SHADER_READ_ONLY_OPTIMAL"

TexInit ==
  \E w \in 1 .. MaxTexDim, h \in 1 .. MaxTexDim :
    tex = [phase |-> "start", width |-> w, height |-> h, mip_levels |-> 0,
           cmds |-> << >>, ip |-> 1, layout |-> << >>, history |-> << >>,
           written |-> << >>, errors |-> {}, old |-> "UNDEFINED",
           new |-> "UNDEFINED", thrown |-> "none"]

\* CreateTextureImages up to the end of the lambda given to
\* ExecuteSingleTimeCommands: the image is created with texture_mip_levels_
\* levels in layout UNDEFINED and the commands are recorded.
CreateTextureImages ==
  /\ tex.phase = "start"
  /\ LET levels == MipLevels(tex.width, tex.height)
         first == TransitionImageLayout("UNDEFINED", "TRANSFER_DST_OPTIMAL",
                                        levels)
     IN
     tex' = [tex EXCEPT
               !.phase = IF first.thrown = "none" THEN "recorded" ELSE "thrown",
               !.thrown = first.thrown,
               !.mip_levels = levels,
               !.cmds = IF first.thrown = "none"
                        THEN first.cmds
                               \o << CopyBufferToImage(tex.width, tex.height) >>
                               \o GenerateMipMaps_Blit(tex.width, tex.height,
                                                       levels)
                        ELSE first.cmds,
               !.layout = [l \in 1 .. levels |-> "UNDEFINED"],
               !.history = [l \in 1 .. levels |-> << "UNDEFINED" >>],
               !.written = [l \in 1 .. levels |-> FALSE]]
  /\ UNCHANGED <<appVars, pick, rate, surf, moreVars>>

\* mip levels (1-based) a command's subresource range covers
CmdLevels(c) == (c.base + 1) .. (c.base + c.count)

\* what the execution of command c finds wrong in the image's state
CmdErrors(c) ==
  CASE c.cmd = "barrier" ->
         IF \E l \in CmdLevels(c) :
              c.old # "UNDEFINED" /\ tex.layout[l] # c.old
         THEN {"barrier_old_layout"} ELSE {}
    [] c.cmd = "copy" ->
         IF tex.layout[1] # c.new THEN {"copy_layout"} ELSE {}
    [] OTHER ->
         (IF tex.layout[c.src + 1] # c.old THEN {"blit_src_layout"} ELSE {})
           \cup (IF tex.layout[c.dst + 1] # c.new
                 THEN {"blit_dst_layout"} ELSE {})
           \cup (IF ~tex.written[c.src + 1]
                 THEN {"blit_src_unwritten"} ELSE {})

\* EndSingleTimeCommands: the queue executes the next recorded command
ExecuteCommand ==
  /\ tex.phase = "recorded"
  /\ LET c == tex.cmds[tex.ip]
         done == tex.ip = Len(tex.cmds)
     IN
     tex' = [tex EXCEPT
               !.ip = tex.ip + 1,
               !.phase = IF done THEN "executed" ELSE "recorded",
               !.errors = tex.errors \cup CmdErrors(c),
               !.layout = [l \in DOMAIN tex.layout |->
                             IF c.cmd = "barrier" /\ l \in CmdLevels(c)
                             THEN c.new ELSE tex.layout[l]],
               !.history = [l \in DOMAIN tex.history |->
                              IF c.cmd = "barrier" /\ l \in CmdLevels(c)
                              THEN Append(tex.history[l], c.new)
                              ELSE tex.history[l]],
               !.written = [l \in DOMAIN tex.written |->
                              IF \/ (c.cmd = "copy" /\ l = 1)
                                 \/ (c.cmd = "blit" /\ l = c.dst + 1)
                              THEN TRUE ELSE tex.written[l]]]
  /\ UNCHANGED <<appVars, pick, rate, surf, moreVars>>

\* a call of TransitionImageLayout with arbitrary layouts on a fresh command
\* buffer
TransitionImageLayoutCall ==
  /\ tex.phase = "start"
  /\ \E old_layout \in ImageLayouts, new_layout \in ImageLayouts :
       LET r == TransitionImageLayout(old_layout, new_layout,
                                      MipLevels(tex.width, tex.height))
       IN
       tex' = [tex EXCEPT !.phase = "transition", !.old = old_layout,
                          !.new = new_layout, !.thrown = r.thrown,
                          !.cmds = r.cmds]
  /\ UNCHANGED <<appVars, pick, rate, surf, moreVars>>

IdleApp ==
  /\ pc = "idle"
  /\ step = 1
  /\ live = {}
  /\ numImages = 0
  /\ current_frame_ = 0
  /\ frame_buffer_resized_ = FALSE
  /\ fenceSignaled = [s \in Slots |-> FALSE]
  /\ images_in_flight_ = << >>
  /\ pending = {}
  /\ image_index = 0
  /\ ops = NoOps
  /\ prevSlot = NoSlot
  /\ retTo = "loop"
  /\ winZero = FALSE
  /\ rcZero = FALSE
  /\ present_result = "none"
  /\ acquire_result = "none"

InitTexture ==
  /\ IdleApp /\ TexInit /\ pick = IdlePick /\ rate = IdleRate
  /\ surf = IdleSurf
  /\ IdleMore

NextTexture ==
  \/ CreateTextureImages
  \/ ExecuteCommand
  \/ TransitionImageLayoutCall

SpecTexture == InitTexture /\ [][NextTexture]_vars

---------------------------------------------------------------------------
\* PickPhysicalDevice over the devices vkEnumeratePhysicalDevices returns
\* (SpecPick).

\* device_extensions_, filled by the constructor
device_extensions_ == { "VK_KHR_swapchain" }

QueueFamily(graphics, present) == [graphics |-> graphics, present |-> present]

\* the queue family lists of the enumerated devices
FamilyLists ==
  { << QueueFamily(TRUE, FALSE) >>,
    << QueueFamily(TRUE, TRUE) >>,
    << QueueFamily(FALSE, TRUE), QueueFamily(TRUE, FALSE) >> }

\* what Populate reads from a physical device and its surface
Devices ==
  [ extensions : { {}, {"VK_KHR_swapchain"} },
    formats : 0 .. 1,
    present_modes : 0 .. 1,
    families : FamilyLists,
    deviceType : { "INTEGRATED_GPU", "DISCRETE_GPU" },
    samplerAnisotropy : BOOLEAN ]

RECURSIVE IndexCacheLoop_BreaksEarly(_, _, _, _)
\* the loop leaves as soon as one of the two indices is known
IndexCacheLoop_BreaksEarly(families, i, graphics_fi, present_fi) ==
  IF i >= Len(families)
  THEN [graphics_fi_ |-> graphics_fi, present_fi_ |-> present_fi]
  ELSE LET g == IF families[i + 1].graphics THEN i ELSE graphics_fi
           p == IF families[i + 1].present THEN i ELSE present_fi
       IN IF g # 0 - 1 \/ p # 0 - 1
          THEN [graphics_fi_ |-> g, present_fi_ |-> p]
          ELSE IndexCacheLoop_BreaksEarly(families, i + 1, g, p)

RECURSIVE IndexCacheLoop(_, _, _, _)
\* the loop of PopulateIndexCache from family i (0-based) on
IndexCacheLoop(families, i, graphics_fi, present_fi) ==
  IF i >= Len(families)
  THEN [graphics_fi_ |-> graphics_fi, present_fi_ |-> present_fi]
  ELSE LET g == IF families[i + 1].graphics THEN i ELSE graphics_fi
           p == IF families[i + 1].present THEN i ELSE present_fi
       IN IF g # 0 - 1 /\ p # 0 - 1
          THEN [graphics_fi_ |-> g, present_fi_ |-> p]
          ELSE IndexCacheLoop(families, i + 1, g, p)

PopulateIndexCache(families) == IndexCacheLoop(families, 0, 0 - 1, 0 - 1)

HasAllRequired(d) ==
  LET cache == PopulateIndexCache(d.families) IN
  cache.graphics_fi_ # 0 - 1 /\ cache.present_fi_ # 0 - 1

RateDevice(d) ==
  IF ~HasAllRequired(d)
  THEN 0 - 1
  ELSE (IF d.deviceType = "DISCRETE_GPU" THEN 1000 ELSE 0)
         + (IF d.samplerAnisotropy THEN 100 ELSE 0)

\* the loop over device_extensions_ with HasExtension
HasExtensions(d) == \A required \in device_extensions_ : required \in d.extensions

RECURSIVE PickLoop_LastWins(_, _, _, _)
\* the loop with score >= best_score
PickLoop_LastWins(devices, i, best_score, selected) ==
  IF i > Len(devices)
  THEN [best_score |-> best_score, selected |-> selected]
  ELSE LET d == devices[i] IN
       IF ~HasExtensions(d) \/ d.formats = 0 \/ d.present_modes = 0
       THEN PickLoop_LastWins(devices, i + 1, best_score, selected)
       ELSE IF RateDevice(d) >= best_score
            THEN PickLoop_LastWins(devices, i + 1, RateDevice(d), i)
            ELSE PickLoop_LastWins(devices, i + 1, best_score, selected)

RECURSIVE PickLoop(_, _, _, _)
\* the loop of PickPhysicalDevice from device i (1-based) on; selected is the
\* device whose info *device_info_ holds (0: a default-constructed info)
PickLoop(devices, i, best_score, selected) ==
  IF i > Len(devices)
  THEN [best_score |-> best_score, selected |-> selected]
  ELSE LET d == devices[i] IN
       IF ~HasExtensions(d) \/ d.formats = 0 \/ d.present_modes = 0
       THEN PickLoop(devices, i + 1, best_score, selected)
       ELSE IF RateDevice(d) > best_score
            THEN PickLoop(devices, i + 1, RateDevice(d), i)
            ELSE PickLoop(devices, i + 1, best_score, selected)

PickInit ==
  \E n \in 0 .. MaxDevices :
    \E devices \in [1 .. n -> Devices] :
      pick = [phase |-> "start", devices |-> devices, selected |-> 0 - 1,
              best_score |-> 0 - 1]

\* a PickPhysicalDevice that accepts whatever the loop left
NoSuitableDevice_Never(best_score) == FALSE

\* the test made after the loop
NoSuitableDevice(best_score) == best_score < 0

\* PickPhysicalDevice; selected = -1 stands for a null device_info_
PickPhysicalDevice ==
  /\ pick.phase = "start"
  /\ IF Len(pick.devices) = 0
     THEN pick' = [pick EXCEPT !.phase = "thrown"]
     ELSE LET r == PickLoop(pick.devices, 1, 0 - 1, 0) IN
          pick' = [pick EXCEPT
                     !.phase = IF NoSuitableDevice(r.best_score)
                               THEN "thrown" ELSE "returned",
                     !.selected = r.selected,
                     !.best_score = r.best_score]
  /\ UNCHANGED <<appVars, tex, rate, surf, moreVars>>

InitPick ==
  /\ IdleApp /\ tex = IdleTex /\ PickInit /\ rate = IdleRate /\ surf = IdleSurf
  /\ IdleMore

NextPick == PickPhysicalDevice

SpecPick == InitPick /\ [][NextPick]_vars

---------------------------------------------------------------------------
\* RateDevice on the devices Populate can describe (SpecRate).

QueueFamilies == [graphics : BOOLEAN, present : BOOLEAN]

\* families_properties with the answer of DeviceSupportsPresentation
RatedFamilyLists ==
  UNION { [1 .. n -> QueueFamilies] : n \in 0 .. MaxFamilies }

RatedDevices ==
  [ families : RatedFamilyLists,
    deviceType : { "INTEGRATED_GPU", "DISCRETE_GPU", "CPU" },
    samplerAnisotropy : BOOLEAN ]

RateInit ==
  \E a \in RatedDevices, b \in RatedDevices :
    rate = [phase |-> "start", a |-> a, b |-> b, score_a |-> 0, score_b |-> 0]

\* Populate followed by RateDevice, on two devices
RateDeviceCall ==
  /\ rate.phase = "start"
  /\ rate' = [rate EXCEPT !.phase = "rated",
                          !.score_a = RateDevice(rate.a),
                          !.score_b = RateDevice(rate.b)]
  /\ UNCHANGED <<appVars, tex, pick, surf, moreVars>>

InitRate ==
  /\ IdleApp /\ tex = IdleTex /\ pick = IdlePick /\ RateInit /\ surf = IdleSurf
  /\ IdleMore

NextRate == RateDeviceCall

SpecRate == InitRate /\ [][NextRate]_vars

---------------------------------------------------------------------------
\* DeviceSurfaceInfo::choose_surface_format (SpecFormat).

SurfaceFormats ==
  [ format : { "B8G8R8A8_SRGB", "R8G8B8A8_UNORM" },
    colorSpace : { "SRGB_NONLINEAR_KHR", "EXTENDED_SRGB_LINEAR_EXT" } ]

\* the score the loop body gives one surface format
FormatScore(surface_format, preferred) ==
  (IF surface_format.format = preferred.format THEN 1 ELSE 0)
    + (IF surface_format.colorSpace = preferred.colorSpace THEN 1 ELSE 0)

RECURSIVE ChooseFormatLoop_LastWins(_, _, _, _, _)
\* the loop with score >= best_score
ChooseFormatLoop_LastWins(formats, index, best_index, best_score, preferred) ==
  IF index = Len(formats)
  THEN best_index
  ELSE LET score == FormatScore(formats[index + 1], preferred) IN
       IF score >= best_score
       THEN IF score = 2
            THEN index
            ELSE ChooseFormatLoop_LastWins(formats, index + 1, index, score,
                                           preferred)
       ELSE ChooseFormatLoop_LastWins(formats, index + 1, best_index,
                                      best_score, preferred)

RECURSIVE ChooseFormatLoop(_, _, _, _, _)
\* the loop of choose_surface_format from index (0-based) on; its value is
\* best_index when the loop is left
ChooseFormatLoop(formats, index, best_index, best_score, preferred) ==
  IF index = Len(formats)
  THEN best_index
  ELSE LET score == FormatScore(formats[index + 1], preferred) IN
       IF score > best_score
       THEN IF score = 2
            THEN index
            ELSE ChooseFormatLoop(formats, index + 1, index, score, preferred)
       ELSE ChooseFormatLoop(formats, index + 1, best_index, best_score,
                             preferred)

\* return formats[best_index]
choose_surface_format(formats, preferred) ==
  formats[ChooseFormatLoop(formats, 0, 0, 0 - 1, preferred) + 1]

\* the header requires a non-empty formats list
SurfInit ==
  \E n \in 1 .. MaxFormats :
    \E formats \in [1 .. n -> SurfaceFormats], preferred \in SurfaceFormats :
      surf = [phase |-> "start", formats |-> formats, preferred |-> preferred,
              chosen |-> preferred]

ChooseSurfaceFormat ==
  /\ surf.phase = "start"
  /\ surf' = [surf EXCEPT
                !.phase = "chosen",
                !.chosen = choose_surface_format(surf.formats, surf.preferred)]
  /\ UNCHANGED <<appVars, tex, pick, rate, moreVars>>

InitFormat ==
  /\ IdleApp /\ tex = IdleTex /\ pick = IdlePick /\ rate = IdleRate /\ SurfInit
  /\ IdleMore

NextFormat == ChooseSurfaceFormat

SpecFormat == InitFormat /\ [][NextFormat]_vars

---------------------------------------------------------------------------
\* Claims about the application's life (Spec).

OpsNamed(names) == SelectSeq(ops, LAMBDA o : o.op \in names)

\* the chain of objects C1 names, in the order it gives
LifecycleChain ==
  << "instance", "physical_device", "device", "swap_chain", "render_pass",
     "pipeline", "framebuffers", "command_buffers", "sync_objects" >>

\* C1: whenever an object of the chain instance, physical device, logical
\* device, swapchain, render pass, pipeline, framebuffers, command buffers,
\* synchronization primitives is created (by InitializeVulkan or rebuilt by
\* RecreateSwapChain), every earlier object of the chain exists.
C1_CreationOrder ==
  [][\A i \in 1 .. Len(LifecycleChain) :
       (LifecycleChain[i] \notin live /\ LifecycleChain[i] \in live')
         => \A j \in 1 .. (i - 1) : LifecycleChain[j] \in live']_vars

\* RecreateSwapChain has rebuilt the chain's swapchain-dependent objects up
\* to the command buffers
C1_Witness ==
  /\ pc = retTo
  /\ retTo = "df_end"
  /\ \A i \in 1 .. Len(LifecycleChain) : LifecycleChain[i] \in live

\* C2: a submit that signals in_flight_fences_[current_frame_] is made only
\* when no pending submission signals that fence, and a fence is unsignaled
\* only while a pending submission will signal it (it is reset right before
\* the submit).
C2_FenceNotReused ==
  /\ \A i \in DOMAIN ops :
       ops[i].op = "submit"
         => \A p \in ops[i].before : FenceOf(p.slot) # ops[i].fence
  /\ ("sync_objects" \in live /\ pc # "dtor")
       => \A s \in Slots :
            ~fenceSignaled[s] => \E p \in pending : p.slot = s

\* a frame is submitted on a slot while the frame of the other slot is pending
C2_Witness ==
  /\ Len(ops) = 4
  /\ ops[3].op = "submit"
  /\ ops[3].before # {}

\* C3: in a DrawFrame that presents, the calls are acquire, submit, present;
\* the submit waits on the semaphore given to the acquire and signals the
\* slot's render_finished semaphore, the present waits on that semaphore and
\* presents the acquired image.
C3_AcquireSubmitPresent ==
  LET calls == OpsNamed({"acquire", "submit", "present"}) IN
  (\E i \in DOMAIN ops : ops[i].op = "present")
    => /\ Len(calls) = 3
       /\ calls[1].op = "acquire"
       /\ calls[2].op = "submit"
       /\ calls[3].op = "present"
       /\ calls[1].signal = image_available_semaphores_(prevSlot)
       /\ calls[2].wait = calls[1].signal
       /\ calls[2].signal = render_finished_semaphores_(prevSlot)
       /\ calls[3].wait = calls[2].signal
       /\ calls[3].image = calls[1].image
       /\ calls[2].image = calls[1].image

\* a frame on slot 1 has presented image 2
C3_Witness ==
  /\ Len(ops) = 4
  /\ ops[4].op = "present"
  /\ ops[4].image = 2
  /\ prevSlot = 1

\* C4: current_frame_ is a slot; a DrawFrame that got past the acquisition
\* and returned has advanced it by one modulo kMaxFramesInFlight, so a frame
\* is never submitted on the slot of the previous submitted frame; at most
\* kMaxFramesInFlight submissions are pending.
C4_FrameSlots ==
  /\ kMaxFramesInFlight = 2
  /\ current_frame_ \in 0 .. (kMaxFramesInFlight - 1)
  /\ Cardinality(pending) <= kMaxFramesInFlight
  /\ (pc \in {"loop", "df_begin"} /\ prevSlot # NoSlot)
       => current_frame_ = (prevSlot + 1) % kMaxFramesInFlight
  /\ pc = "df_image" => prevSlot # current_frame_
  /\ \A p, q \in pending : p # q => p.slot # q.slot

\* two frames are pending and the main loop is about to draw on slot 0 again
C4_Witness ==
  /\ pc = "df_begin"
  /\ Cardinality(pending) = kMaxFramesInFlight
  /\ current_frame_ = 0
  /\ prevSlot = 1

\* C5: DrawFrame writes the uniform buffer of image i and submits the
\* command buffer of image i only when no pending submission uses image i.
C5_ImageNotInUse ==
  \A i \in DOMAIN ops :
    ops[i].op \in {"update_uniform_buffer", "submit"}
      => \A p \in ops[i].before : p.image # ops[i].image

\* C6: when RecreateSwapChain calls CleanupSwapChain, vkDeviceWaitIdle has
\* returned and no submission is pending.
C6_RecreateDestroysIdle ==
  [][(pc \in {"rc_size", "rc_cleanup", "rc_create"}
       /\ \E k \in SwapChainKinds : k \in live /\ k \notin live')
     => pending = {}]_vars

C6_Witness ==
  /\ pc = "rc_create"
  /\ retTo = "df_end"
  /\ "swap_chain" \notin live
  /\ Len(ops) = 4


RecreatePcs == {"rc_size", "rc_cleanup", "rc_create"}

\* a step of the DrawFrame whose vkAcquireNextImageKHR returned
\* VK_ERROR_OUT_OF_DATE_KHR: the switch, or RecreateSwapChain called from it
OutOfDatePath ==
  \/ pc = "df_acquired" /\ acquire_result = "VK_ERROR_OUT_OF_DATE_KHR"
  \/ pc \in RecreatePcs /\ retTo = "loop"

\* C14: when vkAcquireNextImageKHR returns VK_ERROR_OUT_OF_DATE_KHR, DrawFrame
\* calls RecreateSwapChain and returns to the main loop (or leaves by an
\* exception of RecreateSwapChain); on the way nothing is submitted or
\* presented, current_frame_ and images_in_flight_ keep their values, and no
\* fence is reset: a fence changes only when the device signals it.
C14_OutOfDateReturns ==
  [][OutOfDatePath
       => /\ (pc = "df_acquired" /\ pc' # pc) => pc' = "rc_size"
          /\ pc' \in RecreatePcs \cup {"df_acquired", "loop", "dtor"}
          /\ current_frame_' = current_frame_
          /\ images_in_flight_' = images_in_flight_
          /\ pending' \subseteq pending
          /\ \A s \in Slots : fenceSignaled[s] => fenceSignaled'[s]
          /\ pending' = pending => fenceSignaled' = fenceSignaled
          /\ ops' = NoOps
          /\ prevSlot' = prevSlot]_vars

\* after a submitted frame on slot 0, a DrawFrame on slot 1 has taken the
\* out-of-date path and returned to the main loop
C14_Witness ==
  /\ pc = "loop"
  /\ ops = NoOps
  /\ retTo = "loop"
  /\ prevSlot = 0
  /\ current_frame_ = 1
  /\ \E i \in DOMAIN images_in_flight_ : images_in_flight_[i] = FenceOf(0)
  /\ \A k \in SwapChainKinds : k \in live

\* the fence is signaled or a pending submission will signal it
FenceWillBeSignaled(fence) ==
  \E s \in Slots :
    /\ fence = FenceOf(s)
    /\ fenceSignaled[s] \/ \E p \in pending : p.slot = s

\* C15: every fence DrawFrame waits on, the slot's fence at its start and
\* images_in_flight_[image_index] when it is not null, is signaled or will be
\* signaled by a pending submission.
C15_FenceWaitsEnd ==
  /\ pc = "df_begin" => FenceWillBeSignaled(FenceOf(current_frame_))
  /\ pc = "df_image"
       => \A fence \in ImageFence(image_index) :
            fence # VK_NULL_HANDLE => FenceWillBeSignaled(fence)

\* C16: the image index DrawFrame got from vkAcquireNextImageKHR is an index
\* of images_in_flight_.
C16_ImageIndexValid ==
  pc = "df_image" => image_index < Len(images_in_flight_)

\* C17: a result of vkQueuePresentKHR other than VK_SUCCESS,
\* VK_SUBOPTIMAL_KHR and VK_ERROR_OUT_OF_DATE_KHR makes DrawFrame throw,
\* whatever frame_buffer_resized_ is.
C17_PresentErrorThrows ==
  [][(/\ pc = "df_present"
      /\ pc' # pc
      /\ present_result \notin {"VK_SUCCESS", "VK_SUBOPTIMAL_KHR",
                                "VK_ERROR_OUT_OF_DATE_KHR"})
       => pc' = "dtor"]_vars

\* C18: after vkQueuePresentKHR, DrawFrame calls RecreateSwapChain if and
\* only if the result is VK_ERROR_OUT_OF_DATE_KHR or VK_SUBOPTIMAL_KHR or
\* frame_buffer_resized_ is set; when RecreateSwapChain returns to the end of
\* that DrawFrame, frame_buffer_resized_ is false.
C18_RecreateAfterPresent ==
  [][/\ (pc = "df_present" /\ pc' # pc)
          => ((pc' = "rc_size")
                <=> \/ present_result \in {"VK_ERROR_OUT_OF_DATE_KHR",
                                           "VK_SUBOPTIMAL_KHR"}
                    \/ frame_buffer_resized_)
     /\ (pc = "rc_create" /\ pc' = "df_end") => ~frame_buffer_resized_']_vars

C20_RecreateSizeNonZero ==
  pc \in {"rc_cleanup", "rc_create"} => ~winZero

\* every kind of object InitializeVulkan creates
AllKinds == { InitializeVulkanOrder[i] : i \in DOMAIN InitializeVulkanOrder }

\* C21: RecreateSwapChain is entered with every kind of object live and
\* returns with every kind live again, having recreated what CleanupSwapChain
\* destroyed; no step of it changes which of the kinds that CleanupSwapChain
\* does not destroy (instance, surface, device, command pools, semaphores and
\* fences, texture, vertex and index buffers, descriptor set layout, ...) are
\* live, nor current_frame_.
C21_RecreateKeepsKinds ==
  [][/\ (pc \notin RecreatePcs /\ pc' \in RecreatePcs) => live = AllKinds
     /\ (pc = "rc_create" /\ pc' \notin {"rc_create", "dtor"})
          => live' = AllKinds
     /\ pc \in RecreatePcs
          => /\ live' \ SwapChainKinds = live \ SwapChainKinds
             /\ live \ SwapChainKinds = AllKinds \ SwapChainKinds
             /\ current_frame_' = current_frame_]_vars

\* RecreateSwapChain, called after a present on slot 1 with all the
\* swapchain-dependent kinds destroyed, has returned
C21_Witness ==
  /\ pc = "df_end"
  /\ retTo = "df_end"
  /\ current_frame_ = 1
  /\ live = AllKinds
  /\ numImages # Len(images_in_flight_)

\* C24: a Cleanup that destroys objects of the device runs only when no
\* submission is pending on the device, whether it is called at the end of
\* Run or by the destructor after a throw.
C24_CleanupAfterIdle ==
  [][(pc \in {"run_cleanup", "dtor"} /\ pc' # pc /\ "device" \in live)
       => pending = {}]_vars

---------------------------------------------------------------------------
\* Claims about the texture upload (SpecTexture).

Pow2(n) == IF n = 0 THEN 1 ELSE 2 ^ n

\* C7: TransitionImageLayout records exactly one image memory barrier, from
\* the old to the new layout, for the three supported pairs of layouts; for
\* every other pair it throws std::invalid_argument and records nothing.
C7_TransitionPairs ==
  tex.phase = "transition"
    => IF << tex.old, tex.new >> \in SupportedTransitions
       THEN /\ tex.thrown = "none"
            /\ Len(tex.cmds) = 1
            /\ tex.cmds[1].cmd = "barrier"
            /\ tex.cmds[1].old = tex.old
            /\ tex.cmds[1].new = tex.new
       ELSE /\ tex.thrown = "std::invalid_argument"
            /\ tex.cmds = << >>

\* an unsupported pair was rejected
C7_Witness ==
  /\ tex.phase = "transition"
  /\ tex.old = "TRANSFER_DST_OPTIMAL"
  /\ tex.new = "TRANSFER_SRC_OPTIMAL"
  /\ tex.thrown = "std::invalid_argument"

\* C8: after the command buffer of CreateTextureImages has executed, every
\* mip level is in the layout the descriptor sets declare; the levels below
\* the last went UNDEFINED, TRANSFER_DST, TRANSFER_SRC, SHADER_READ_ONLY, the
\* last went UNDEFINED, TRANSFER_DST, SHADER_READ_ONLY; every command found
\* the layouts it names and every blit read a level that had been written.
C8_MipLayouts ==
  tex.phase = "executed"
    => /\ tex.mip_levels >= 1
       /\ Len(tex.layout) = tex.mip_levels
       /\ \A l \in 1 .. tex.mip_levels :
            /\ tex.layout[l] = DescriptorImageLayout
            /\ tex.written[l]
            /\ tex.history[l] =
                 IF l < tex.mip_levels
                 THEN << "UNDEFINED", "TRANSFER_DST_OPTIMAL",
                         "TRANSFER_SRC_OPTIMAL", "SHADER_READ_ONLY_OPTIMAL" >>
                 ELSE << "UNDEFINED", "TRANSFER_DST_OPTIMAL",
                         "SHADER_READ_ONLY_OPTIMAL" >>
       /\ tex.errors = {}

\* a chain of three levels has been generated
C8_Witness ==
  /\ tex.phase = "executed"
  /\ tex.mip_levels = 3

TexBlits == SelectSeq(tex.cmds, LAMBDA c : c.cmd = "blit")

\* C9: with mip_levels = 1 + floor(log2(max(width, height))) the recorded
\* commands hold exactly mip_levels - 1 blits; blit k reads level k - 1 at
\* max(1, width div 2^(k-1)) x max(1, height div 2^(k-1)) and writes level k
\* at max(1, width div 2^k) x max(1, height div 2^k); the last level is 1 x 1.
C9_MipExtents ==
  tex.phase \in {"recorded", "executed"}
    => LET L == tex.mip_levels
           m == Max(tex.width, tex.height)
       IN
       /\ L >= 1
       /\ Pow2(L - 1) <= m
       /\ m < Pow2(L)
       /\ Len(TexBlits) = L - 1
       /\ \A k \in 1 .. (L - 1) :
            /\ TexBlits[k].src = k - 1
            /\ TexBlits[k].dst = k
            /\ TexBlits[k].sw = Max(1, tex.width \div Pow2(k - 1))
            /\ TexBlits[k].sh = Max(1, tex.height \div Pow2(k - 1))
            /\ TexBlits[k].dw = Max(1, tex.width \div Pow2(k))
            /\ TexBlits[k].dh = Max(1, tex.height \div Pow2(k))
       /\ Max(1, tex.width \div Pow2(L - 1)) = 1
       /\ Max(1, tex.height \div Pow2(L - 1)) = 1

\* a 5 x 2 texture: the height reaches 1 before the width does
C9_Witness ==
  /\ tex.phase = "recorded"
  /\ tex.width = 5
  /\ tex.height = 2
  /\ Len(TexBlits) = 2

---------------------------------------------------------------------------
\* Claims about the device selection (SpecPick).

\* the devices PickPhysicalDevice considers: every required extension, at
\* least one surface format and one present mode
EligibleDevices ==
  { i \in DOMAIN pick.devices :
      /\ device_extensions_ \subseteq pick.devices[i].extensions
      /\ pick.devices[i].formats >= 1
      /\ pick.devices[i].present_modes >= 1 }

\* C10: when PickPhysicalDevice returns, the selected device is one of the
\* eligible devices, no eligible device has a greater RateDevice score, every
\* eligible device before it has a smaller score, and its score is not -1.
C10_PicksBestDevice ==
  pick.phase = "returned"
    => /\ pick.selected \in EligibleDevices
       /\ RateDevice(pick.devices[pick.selected]) # 0 - 1
       /\ pick.best_score = RateDevice(pick.devices[pick.selected])
       /\ \A j \in EligibleDevices :
            /\ RateDevice(pick.devices[j])
                 <= RateDevice(pick.devices[pick.selected])
            /\ j < pick.selected
                 => RateDevice(pick.devices[j])
                      < RateDevice(pick.devices[pick.selected])

\* two eligible devices tie and the first one is selected
C10_Witness ==
  /\ pick.phase = "returned"
  /\ Len(pick.devices) = 2
  /\ EligibleDevices = {1, 2}
  /\ RateDevice(pick.devices[1]) = 1100
  /\ RateDevice(pick.devices[2]) = 1100
  /\ pick.selected = 1

\* the devices PickPhysicalDevice may select: eligible and rated above -1
SuitableDevices ==
  { i \in EligibleDevices : RateDevice(pick.devices[i]) # 0 - 1 }

\* C13: PickPhysicalDevice throws when no device is enumerated and when no
\* enumerated device is suitable, and only then; when it returns, device_info_
\* holds a suitable device.
C13_PickThrows ==
  pick.phase # "start"
    => /\ (pick.phase = "thrown") <=> (SuitableDevices = {})
       /\ pick.phase = "returned" => pick.selected \in SuitableDevices

\* two devices are enumerated, one rated -1, one without the extension
C13_Witness ==
  /\ pick.phase = "thrown"
  /\ Len(pick.devices) = 2
  /\ 1 \in EligibleDevices
  /\ RateDevice(pick.devices[1]) = 0 - 1
  /\ 2 \notin EligibleDevices
  /\ RateDevice(pick.devices[2]) = 1100

---------------------------------------------------------------------------
\* Claims about RateDevice (SpecRate).

HasGraphics(d) == \E i \in DOMAIN d.families : d.families[i].graphics
HasPresent(d) == \E i \in DOMAIN d.families : d.families[i].present

ExpectedScore(d) ==
  (IF d.deviceType = "DISCRETE_GPU" THEN 1000 ELSE 0)
    + (IF d.samplerAnisotropy THEN 100 ELSE 0)

\* C11: RateDevice returns -1 exactly when the device has no graphics queue
\* family or no queue family that can present; otherwise 1000 for a discrete
\* GPU plus 100 for sampler anisotropy; a suitable discrete GPU is rated
\* above every device that is not a discrete GPU.
C11_RateDevice ==
  rate.phase = "rated"
    => /\ (rate.score_a = 0 - 1)
            <=> (~HasGraphics(rate.a) \/ ~HasPresent(rate.a))
       /\ rate.score_a # 0 - 1 => rate.score_a = ExpectedScore(rate.a)
       /\ (rate.score_b = 0 - 1)
            <=> (~HasGraphics(rate.b) \/ ~HasPresent(rate.b))
       /\ rate.score_b # 0 - 1 => rate.score_b = ExpectedScore(rate.b)
       /\ (rate.score_a # 0 - 1 /\ rate.a.deviceType = "DISCRETE_GPU"
             /\ rate.b.deviceType # "DISCRETE_GPU")
            => rate.score_a > rate.score_b

\* a discrete GPU whose present family precedes its graphics family, against
\* an integrated GPU with sampler anisotropy
C11_Witness ==
  /\ rate.phase = "rated"
  /\ rate.a.families = << [graphics |-> FALSE, present |-> TRUE],
                          [graphics |-> TRUE, present |-> FALSE] >>
  /\ rate.a.deviceType = "DISCRETE_GPU"
  /\ ~rate.a.samplerAnisotropy
  /\ rate.score_a = 1000
  /\ rate.b.deviceType = "INTEGRATED_GPU"
  /\ rate.score_b = 100

---------------------------------------------------------------------------
\* Claims about choose_surface_format (SpecFormat).

\* the greatest score of a format of the list
BestFormatScore ==
  CHOOSE m \in 0 .. 2 :
    /\ \E i \in DOMAIN surf.formats :
         FormatScore(surf.formats[i], surf.preferred) = m
    /\ \A i \in DOMAIN surf.formats :
         FormatScore(surf.formats[i], surf.preferred) <= m

\* the first format of the list with the greatest score
FirstBestFormat ==
  CHOOSE i \in DOMAIN surf.formats :
    /\ FormatScore(surf.formats[i], surf.preferred) = BestFormatScore
    /\ \A j \in 1 .. (i - 1) :
         FormatScore(surf.formats[j], surf.preferred) < BestFormatScore

\* C12: called with a non-empty list, choose_surface_format returns an
\* element of the list: the preferred pair when the list holds it, otherwise
\* the first element that matches the greatest number of preferred fields.
C12_ClosestFormat ==
  surf.phase = "chosen"
    => /\ \E i \in DOMAIN surf.formats : surf.formats[i] = surf.chosen
       /\ (\E i \in DOMAIN surf.formats : surf.formats[i] = surf.preferred)
            => surf.chosen = surf.preferred
       /\ surf.chosen = surf.formats[FirstBestFormat]

\* no full match; the first and the last format match one field each
C12_Witness ==
  /\ surf.phase = "chosen"
  /\ Len(surf.formats) = 3
  /\ FormatScore(surf.formats[1], surf.preferred) = 1
  /\ FormatScore(surf.formats[2], surf.preferred) = 0
  /\ FormatScore(surf.formats[3], surf.preferred) = 1
  /\ surf.formats[1] # surf.formats[3]
  /\ surf.chosen = surf.formats[1]

---------------------------------------------------------------------------
\* The handles and the per-image vectors of Application, from
\* InitializeVulkan to the second Cleanup (SpecObjects). DrawFrame is a step
\* that returns, throws or calls RecreateSwapChain.

IdlePure ==
  tex = IdleTex /\ pick = IdlePick /\ rate = IdleRate /\ surf = IdleSurf

\* the member handles a Create* call assigns, in the order it assigns them;
\* debug is kEnableDebugMessengerExtension, true in a build without NDEBUG
Creates(k, debug) ==
  CASE k = "instance" -> << "instance_" >>
    [] k = "debug_messenger" ->
         IF debug THEN << "debug_messenger_" >> ELSE << >>
    [] k = "surface" -> << "surface_" >>
    [] k = "device" -> << "device_" >>
    [] k = "swap_chain" -> << "swap_chain_" >>
    [] k = "render_pass" -> << "render_pass_" >>
    [] k = "descriptor_set_layout" -> << "descriptor_set_layout_" >>
    [] k = "pipeline" -> << "pipeline_layout_", "graphics_pipeline_" >>
    [] k = "command_pools" ->
         << "persistent_command_pool_", "transient_command_pool_" >>
    [] k = "texture" ->
         << "texture_image_", "texture_image_memory_", "texture_image_view_",
            "texture_sampler_" >>
    [] k = "color" ->
         << "color_image_", "color_image_memory_", "color_image_view_" >>
    [] k = "depth" ->
         << "depth_image_", "depth_image_memory_", "depth_image_view_" >>
    [] k = "vertex_buffer" -> << "vertex_buffer_", "vertex_buffer_memory_" >>
    [] k = "index_buffer" -> << "index_buffer_", "index_buffer_memory_" >>
    [] k = "descriptor_pool" -> << "descriptor_pool_" >>
    [] k = "sync_objects" ->
         << "image_available_semaphores_", "render_finished_semaphores_",
            "in_flight_fences_" >>
    [] OTHER -> << >>

\* the first j handles of a Create* call
CreatedHandles(k, debug, j) == { Creates(k, debug)[i] : i \in 1 .. j }

\* the handles CleanupSwapChain passes to Destroy or FreeMemory
CleanupSwapChainHandles ==
  { "depth_image_view_", "depth_image_", "depth_image_memory_",
    "color_image_view_", "color_image_", "color_image_memory_",
    "graphics_pipeline_", "pipeline_layout_", "render_pass_", "swap_chain_",
    "descriptor_pool_" }

\* the handles Cleanup passes to Destroy or FreeMemory after CleanupSwapChain
CleanupHandles ==
  { "texture_sampler_", "texture_image_view_", "texture_image_",
    "texture_image_memory_", "descriptor_set_layout_", "vertex_buffer_",
    "vertex_buffer_memory_", "index_buffer_", "index_buffer_memory_",
    "in_flight_fences_", "render_finished_semaphores_",
    "image_available_semaphores_", "persistent_command_pool_",
    "transient_command_pool_", "device_", "surface_", "instance_" }

\* an element of a vector that holds a null handle
NullElement == [handle |-> VK_NULL_HANDLE]

NonNull(vec) == { i \in DOMAIN vec : vec[i].handle # VK_NULL_HANDLE }

NoVectors ==
  [swap_chain_image_views_ |-> << >>, swap_chain_frame_buffers_ |-> << >>,
   uniform_buffers_ |-> << >>, uniform_buffers_memory_ |-> << >>,
   descriptor_sets_ |-> << >>, command_buffers_ |-> << >>]

\* a vector whose elements after the first j have not been created
Partial(vec, j) ==
  [i \in DOMAIN vec |-> IF i <= j THEN vec[i] ELSE NullElement]

CreateSwapChainImageViews(v, n) ==
  [v EXCEPT !.swap_chain_image_views_ =
     [i \in 1 .. n |-> [handle |-> i, image |-> i]]]

CreateFrameBuffers(v) ==
  LET num_images == Len(v.swap_chain_image_views_) IN
  [v EXCEPT !.swap_chain_frame_buffers_ =
     [index \in 1 .. num_images |->
        [handle |-> index,
         attachment |-> v.swap_chain_image_views_[index].handle]]]

CreateUniformBuffers(v, n) ==
  [v EXCEPT !.uniform_buffers_ = [i \in 1 .. n |-> [handle |-> i]],
            !.uniform_buffers_memory_ = [i \in 1 .. n |-> [handle |-> i]]]

\* CreateDescriptorSets binding the first uniform buffer to every set
CreateDescriptorSets_FirstBuffer(v, n) ==
  [v EXCEPT !.descriptor_sets_ =
     [i \in 1 .. n |->
        [handle |-> i, buffer |-> v.uniform_buffers_[1].handle]]]

CreateDescriptorSets(v, n) ==
  [v EXCEPT !.descriptor_sets_ =
     [i \in 1 .. n |->
        [handle |-> i, buffer |-> v.uniform_buffers_[i].handle]]]

CreateCommandBuffers(v) ==
  LET num_buffers == Len(v.swap_chain_frame_buffers_) IN
  [v EXCEPT !.command_buffers_ =
     [i \in 1 .. num_buffers |->
        [handle |-> i,
         framebuffer |-> v.swap_chain_frame_buffers_[i].handle,
         descriptor_set |-> v.descriptor_sets_[i].handle]]]

\* the per-image vectors after the Create* call of kind k has returned, with
\* n = swap_chain_images_.size()
CreateVectors(k, v, n) ==
  CASE k = "image_views" -> CreateSwapChainImageViews(v, n)
    [] k = "framebuffers" -> CreateFrameBuffers(v)
    [] k = "uniform_buffers" -> CreateUniformBuffers(v, n)
    [] k = "descriptor_sets" -> CreateDescriptorSets(v, n)
    [] k = "command_buffers" -> CreateCommandBuffers(v)
    [] OTHER -> v

\* the numbers of elements a Create* call that throws may have created: the
\* vector is resized first; vkAllocateDescriptorSets and
\* vkAllocateCommandBuffers create all elements or none, and
\* CreateCommandBuffers may also throw while it records
CreatedBeforeThrow(k, n) ==
  CASE k = "descriptor_sets" -> {0}
    [] k = "command_buffers" -> {0, n}
    [] k \in {"image_views", "framebuffers", "uniform_buffers"} ->
         0 .. (n - 1)
    [] OTHER -> {0}

\* the per-image vectors after the Create* call of kind k has thrown with j
\* elements created
ThrowVectors(k, v, n, j) ==
  LET w == CreateVectors(k, v, n) IN
  [swap_chain_image_views_ |->
     IF k = "image_views"
     THEN Partial(w.swap_chain_image_views_, j) ELSE v.swap_chain_image_views_,
   swap_chain_frame_buffers_ |->
     IF k = "framebuffers"
     THEN Partial(w.swap_chain_frame_buffers_, j)
     ELSE v.swap_chain_frame_buffers_,
   uniform_buffers_ |->
     IF k = "uniform_buffers"
     THEN Partial(w.uniform_buffers_, j) ELSE v.uniform_buffers_,
   uniform_buffers_memory_ |->
     IF k = "uniform_buffers"
     THEN Partial(w.uniform_buffers_memory_, j) ELSE v.uniform_buffers_memory_,
   descriptor_sets_ |->
     IF k = "descriptor_sets"
     THEN Partial(w.descriptor_sets_, j) ELSE v.descriptor_sets_,
   command_buffers_ |->
     IF k = "command_buffers"
     THEN Partial(w.command_buffers_, j) ELSE v.command_buffers_]

\* the length of the vector a Create* call of kind k resizes
ResizedTo(k, v, n) ==
  CASE k = "framebuffers" -> Len(v.swap_chain_image_views_)
    [] k = "command_buffers" -> Len(v.swap_chain_frame_buffers_)
    [] OTHER -> n

\* the per-image vectors after CleanupSwapChain: Destroy pops every element,
\* command_buffers_ is cleared, FreeMemory nulls the elements of
\* uniform_buffers_memory_, and descriptor_sets_ is not touched
CleanupSwapChainVectors(v) ==
  [swap_chain_image_views_ |-> << >>,
   swap_chain_frame_buffers_ |-> << >>,
   uniform_buffers_ |-> << >>,
   uniform_buffers_memory_ |->
     [i \in DOMAIN v.uniform_buffers_memory_ |-> NullElement],
   descriptor_sets_ |-> v.descriptor_sets_,
   command_buffers_ |-> << >>]

DestroyCall(member, handle) == [member |-> member, handle |-> handle]

\* the destroy calls of CleanupSwapChain: Destroy and FreeMemory call the
\* function for a non-null handle only; vkFreeCommandBuffers gets every
\* element of a non-empty command_buffers_
CleanupSwapChainCalls(h, v) ==
  { DestroyCall(m, "valid") : m \in CleanupSwapChainHandles \cap h }
    \cup { DestroyCall(m, "valid") :
             m \in { f \in { "swap_chain_frame_buffers_",
                              "swap_chain_image_views_", "uniform_buffers_",
                              "uniform_buffers_memory_" } :
                       NonNull(v[f]) # {} } }
    \cup { DestroyCall("command_buffers_",
                       IF v.command_buffers_[i].handle = VK_NULL_HANDLE
                       THEN "null" ELSE "valid") :
             i \in DOMAIN v.command_buffers_ }

\* DestroyDebugUtilsMessengerEXT(instance_, debug_messenger_, nullptr): func
\* is the result of vkGetInstanceProcAddr
DestroyDebugUtilsMessengerEXT(h, st, func) ==
  IF func /\ "debug_messenger_" \in h
  THEN { DestroyCall("debug_messenger_",
                     IF "debug_messenger_" \in st
                     THEN "destroyed" ELSE "valid") }
  ELSE {}

\* the state after construction, in either build
ObjInit ==
  \E debug \in BOOLEAN :
    obj = [pc |-> "init", step |-> 1, debug |-> debug, numImages |-> 0,
           handles |-> {}, stale |-> {}, vectors |-> NoVectors,
           cleanup_calls |-> << >>, recreated |-> FALSE]

\* one Create* call of kind k that returns
ObjectsCreated(k, n) ==
  LET num == IF k = "swap_chain" THEN n ELSE obj.numImages IN
  [obj EXCEPT
     !.numImages = num,
     !.handles =
       @ \cup CreatedHandles(k, obj.debug, Len(Creates(k, obj.debug))),
     !.vectors = CreateVectors(k, @, num)]

\* one Create* call of kind k that throws after it has assigned h handles
\* and created j elements of its vector
ObjectsThrown(k, h, j) ==
  [obj EXCEPT
     !.pc = "dtor",
     !.handles = @ \cup CreatedHandles(k, obj.debug, h),
     !.vectors = ThrowVectors(k, @, obj.numImages, j)]

\* one Create* call of the list order; a call that fails throws (VkWrap)
CreateCall(order, returnTo) ==
  LET k == order[obj.step] IN
  \/ \E n \in ImageCounts :
       obj' = [ObjectsCreated(k, n) EXCEPT
                 !.pc = IF obj.step = Len(order) THEN returnTo ELSE @,
                 !.step = IF obj.step = Len(order) THEN 1 ELSE @ + 1,
                 !.recreated =
                   @ \/ (obj.step = Len(order) /\ obj.pc = "rc_create")]
  \/ \E h \in 0 .. Len(Creates(k, obj.debug)),
        j \in CreatedBeforeThrow(k, ResizedTo(k, obj.vectors, obj.numImages)) :
       obj' = ObjectsThrown(k, h, j)

Objects_InitializeVulkan ==
  /\ obj.pc = "init"
  /\ CreateCall(InitializeVulkanOrder, "loop")
  /\ UNCHANGED <<appVars, tex, pick, rate, surf, stc, swap, model>>

\* one iteration of MainLoop: the window closes, or DrawFrame returns, throws
\* or calls RecreateSwapChain
Objects_MainLoop ==
  /\ obj.pc = "loop"
  /\ \E next \in {"run_cleanup", "loop", "dtor", "rc_wait"} :
       obj' = [obj EXCEPT !.pc = next]
  /\ UNCHANGED <<appVars, tex, pick, rate, surf, stc, swap, model>>

\* RecreateSwapChain: VkWrap(vkDeviceWaitIdle), then CleanupSwapChain
Objects_CleanupSwapChain ==
  /\ obj.pc = "rc_wait"
  /\ \E idleOk \in BOOLEAN :
       obj' = IF idleOk
              THEN [obj EXCEPT
                      !.pc = "rc_create",
                      !.step = 1,
                      !.handles = @ \ CleanupSwapChainHandles,
                      !.vectors = CleanupSwapChainVectors(@)]
              ELSE [obj EXCEPT !.pc = "dtor"]
  /\ UNCHANGED <<appVars, tex, pick, rate, surf, stc, swap, model>>

\* RecreateSwapChain: one Create* call
Objects_RecreateSwapChain ==
  /\ obj.pc = "rc_create"
  /\ CreateCall(RecreateSwapChainOrder, "loop")
  /\ UNCHANGED <<appVars, tex, pick, rate, surf, stc, swap, model>>

\* Cleanup, called at the end of Run and again by ~Application.
\* vkGetInstanceProcAddr returns the function for the instance the extension
\* was enabled for; what it returns for a null instance_ is up to the loader.
Objects_Cleanup ==
  /\ obj.pc \in {"run_cleanup", "dtor"}
  /\ \E loaderFunc \in BOOLEAN :
       LET func == IF "instance_" \in obj.handles THEN obj.debug
                   ELSE loaderFunc
       IN
       obj' = [obj EXCEPT
                 !.pc = IF obj.pc = "run_cleanup" THEN "dtor" ELSE "done",
                 !.cleanup_calls =
                   Append(@,
                          CleanupSwapChainCalls(obj.handles, obj.vectors)
                            \cup { DestroyCall(m, "valid") :
                                     m \in CleanupHandles \cap obj.handles }
                            \cup DestroyDebugUtilsMessengerEXT(
                                   obj.handles, obj.stale, func)),
                 !.handles = (@ \ CleanupSwapChainHandles) \ CleanupHandles,
                 !.stale = @ \cup ({"debug_messenger_"} \cap obj.handles),
                 !.vectors = CleanupSwapChainVectors(@)]
  /\ UNCHANGED <<appVars, tex, pick, rate, surf, stc, swap, model>>

InitObjects ==
  /\ IdleApp /\ IdlePure /\ ObjInit
  /\ stc = IdleStc /\ swap = IdleSwap /\ model = IdleModel

NextObjects ==
  \/ Objects_InitializeVulkan
  \/ Objects_MainLoop
  \/ Objects_CleanupSwapChain
  \/ Objects_RecreateSwapChain
  \/ Objects_Cleanup

SpecObjects == InitObjects /\ [][NextObjects]_vars

\* C22: after InitializeVulkan and after every RecreateSwapChain,
\* swap_chain_image_views_, swap_chain_frame_buffers_, uniform_buffers_,
\* uniform_buffers_memory_, descriptor_sets_ and command_buffers_ each have
\* exactly swap_chain_images_.size() elements, none of them null; command
\* buffer i renders into framebuffer i, whose attachment is image view i of
\* image i, and binds descriptor set i, which references uniform buffer i.
C22_PerImageVectors ==
  obj.pc = "loop"
    => LET v == obj.vectors
           n == obj.numImages
       IN
       /\ n \in ImageCounts
       /\ \A f \in DOMAIN v : Len(v[f]) = n /\ NonNull(v[f]) = 1 .. n
       /\ \A i \in 1 .. n :
            /\ v.swap_chain_image_views_[i].image = i
            /\ v.swap_chain_frame_buffers_[i].attachment =
                 v.swap_chain_image_views_[i].handle
            /\ v.command_buffers_[i].framebuffer =
                 v.swap_chain_frame_buffers_[i].handle
            /\ v.command_buffers_[i].descriptor_set =
                 v.descriptor_sets_[i].handle
            /\ v.descriptor_sets_[i].buffer = v.uniform_buffers_[i].handle
       /\ \A i, j \in 1 .. n :
            i # j => \A f \in DOMAIN v : v[f][i].handle # v[f][j].handle

\* RecreateSwapChain has returned with a swap chain of MaxImages images
C22_Witness ==
  /\ obj.pc = "loop"
  /\ obj.recreated
  /\ obj.numImages = MaxImages
  /\ Len(obj.vectors.command_buffers_) = MaxImages

\* C23: every destroy call of Cleanup gets the handle of an object that
\* exists (never a null handle, never the handle of a destroyed object), no
\* member holds the handle of a destroyed object, and the second Cleanup of an
\* execution makes no destroy call.
C23_CleanupDestroysOnce ==
  /\ obj.stale = {}
  /\ \A c \in DOMAIN obj.cleanup_calls :
       \A call \in obj.cleanup_calls[c] : call.handle = "valid"
  /\ Len(obj.cleanup_calls) >= 2 => obj.cleanup_calls[2] = {}

---------------------------------------------------------------------------
\* ExecuteSingleTimeCommands and its callers CreateGpuBufferRaw,
\* CreateTextureImages and CreateDepthResources (SpecSingleTime).

\* the callers that fill a staging buffer and copy out of it
StagingCallers == { "CreateGpuBufferRaw", "CreateTextureImages" }

SingleTimeCallers == StagingCallers \cup { "CreateDepthResources" }

Command(name, reads) == [cmd |-> name, reads |-> reads]

\* the commands the caller's visitor records, for a texture of mips levels
VisitorCommands(caller, mips) ==
  CASE caller = "CreateGpuBufferRaw" ->
         << Command("CopyBuffer", "staging_buffer") >>
    [] caller = "CreateTextureImages" ->
         << Command("TransitionImageLayout", "none"),
            Command("CopyBufferToImage", "staging_buffer") >>
           \o [level \in 1 .. mips |-> Command("GenerateMipMaps_Blit", "none")]
    [] caller = "CreateDepthResources" ->
         << Command("TransitionImageLayout", "none") >>

StcInit ==
  \E caller \in SingleTimeCallers, mips \in 1 .. MaxMipLevels :
    /\ caller # "CreateTextureImages" => mips = 1
    /\ stc = [pc |-> "caller", caller |-> caller, mips |-> mips,
              staging_buffer |-> "none", command_buffer |-> "none",
              recorded |-> << >>, submitted |-> FALSE, executed |-> 0]

\* the caller up to its call of ExecuteSingleTimeCommands: CreateBuffer and
\* MapCopyUnmap of the staging buffer; CreateBuffer may throw
CreateStagingBuffer ==
  /\ stc.pc = "caller"
  /\ \E ok \in BOOLEAN :
       stc' = IF stc.caller \notin StagingCallers
              THEN [stc EXCEPT !.pc = "begin"]
              ELSE IF ok
              THEN [stc EXCEPT !.pc = "begin", !.staging_buffer = "live"]
              ELSE [stc EXCEPT !.pc = "thrown"]
  /\ UNCHANGED <<appVars, tex, pick, rate, surf, obj, swap, model>>

BeginSingleTimeCommands ==
  /\ stc.pc = "begin"
  /\ \E result \in {"ok", "vkAllocateCommandBuffers", "vkBeginCommandBuffer"} :
       stc' = CASE result = "ok" ->
                     [stc EXCEPT !.pc = "visitor",
                                 !.command_buffer = "recording"]
                [] result = "vkAllocateCommandBuffers" ->
                     [stc EXCEPT !.pc = "thrown"]
                [] result = "vkBeginCommandBuffer" ->
                     [stc EXCEPT !.pc = "thrown",
                                 !.command_buffer = "allocated"]
  /\ UNCHANGED <<appVars, tex, pick, rate, surf, obj, swap, model>>

\* visitor(command_buffer): the next command is recorded
Visitor ==
  /\ stc.pc = "visitor"
  /\ LET cmds == VisitorCommands(stc.caller, stc.mips)
         next == Len(stc.recorded) + 1
     IN
     stc' = [stc EXCEPT
               !.recorded = Append(@, cmds[next]),
               !.pc = IF next = Len(cmds) THEN "end" ELSE @]
  /\ UNCHANGED <<appVars, tex, pick, rate, surf, obj, swap, model>>

\* EndSingleTimeCommands: vkEndCommandBuffer and vkQueueSubmit
EndSingleTimeCommands_Submit ==
  /\ stc.pc = "end"
  /\ \E result \in {"ok", "vkEndCommandBuffer", "vkQueueSubmit"} :
       stc' = CASE result = "ok" ->
                     [stc EXCEPT !.pc = "wait",
                                 !.command_buffer = "pending",
                                 !.submitted = TRUE]
                [] result = "vkEndCommandBuffer" ->
                     [stc EXCEPT !.pc = "thrown"]
                [] result = "vkQueueSubmit" ->
                     [stc EXCEPT !.pc = "thrown",
                                 !.command_buffer = "executable"]
  /\ UNCHANGED <<appVars, tex, pick, rate, surf, obj, swap, model>>

\* the graphics queue executes the next command of the submitted buffer
QueueExecute ==
  /\ stc.submitted
  /\ stc.executed < Len(stc.recorded)
  /\ stc' = [stc EXCEPT !.executed = @ + 1]
  /\ UNCHANGED <<appVars, tex, pick, rate, surf, obj, swap, model>>

\* EndSingleTimeCommands without vkQueueWaitIdle
QueueWaitIdleDone_NoWait(s) == TRUE

\* vkQueueWaitIdle returns VK_SUCCESS when the queue has executed everything
\* submitted to it
QueueWaitIdleDone(s) == s.executed = Len(s.recorded)

\* EndSingleTimeCommands: VkWrap(vkQueueWaitIdle), vkFreeCommandBuffers, and
\* the return of ExecuteSingleTimeCommands
EndSingleTimeCommands_Wait ==
  /\ stc.pc = "wait"
  /\ \E ok \in BOOLEAN :
       IF ok
       THEN /\ QueueWaitIdleDone(stc)
            /\ stc' = [stc EXCEPT !.pc = "returned",
                                  !.command_buffer = "freed"]
       ELSE stc' = [stc EXCEPT !.pc = "thrown"]
  /\ UNCHANGED <<appVars, tex, pick, rate, surf, obj, swap, model>>

\* the caller after ExecuteSingleTimeCommands has returned: Destroy and
\* FreeMemory of the staging buffer
DestroyStagingBuffer ==
  /\ stc.pc = "returned"
  /\ stc' = [stc EXCEPT
               !.pc = "done",
               !.staging_buffer = IF @ = "live" THEN "destroyed" ELSE @]
  /\ UNCHANGED <<appVars, tex, pick, rate, surf, obj, swap, model>>

InitSingleTime ==
  /\ IdleApp /\ IdlePure /\ obj = IdleObj /\ StcInit
  /\ swap = IdleSwap /\ model = IdleModel

NextSingleTime ==
  \/ CreateStagingBuffer
  \/ BeginSingleTimeCommands
  \/ Visitor
  \/ EndSingleTimeCommands_Submit
  \/ QueueExecute
  \/ EndSingleTimeCommands_Wait
  \/ DestroyStagingBuffer

SpecSingleTime == InitSingleTime /\ [][NextSingleTime]_vars

\* C25: when ExecuteSingleTimeCommands has returned, every command its
\* visitor recorded has been executed by the graphics queue and the
\* temporary command buffer is freed; a staging buffer is destroyed only
\* after the copy that reads it has been executed.
C25_SingleTimeCommandsDone ==
  /\ stc.pc \in {"returned", "done"}
       => /\ stc.recorded = VisitorCommands(stc.caller, stc.mips)
          /\ stc.executed = Len(stc.recorded)
          /\ stc.command_buffer = "freed"
  /\ stc.command_buffer = "freed" => stc.executed = Len(stc.recorded)
  /\ stc.staging_buffer = "destroyed"
       => \E i \in 1 .. stc.executed : stc.recorded[i].reads = "staging_buffer"

\* CreateTextureImages has destroyed its staging buffer after the upload of a
\* texture of MaxMipLevels levels
C25_Witness ==
  /\ stc.pc = "done"
  /\ stc.caller = "CreateTextureImages"
  /\ stc.mips = MaxMipLevels
  /\ stc.staging_buffer = "destroyed"

---------------------------------------------------------------------------
\* CreateDevice and CreateSwapChain with ChoosePresentMode, on the surface
\* capabilities, present modes and queue family indices of the picked
\* device (SpecSwapChain).

\* A number is the pair << hi, lo >> that stands for hi * 2^16 + lo, with
\* lo < 2^16; a ui32 has hi < 2^16 as well.
HalfWord == 2 ^ 16

Zero == << 0, 0 >>

\* x + 1
PlusOne(x) ==
  IF x[2] + 1 = HalfWord THEN << x[1] + 1, 0 >> ELSE << x[1], x[2] + 1 >>

\* the conversion of a number to ui32
Ui32(x) == << x[1] % HalfWord, x[2] >>

\* x < y
Less(x, y) == x[1] < y[1] \/ (x[1] = y[1] /\ x[2] < y[2])

\* image counts a surface may report: the smallest and the largest ui32 values
NearImageCounts ==
  { << 0, n >> : n \in 1 .. MaxNearCount }
    \cup { << HalfWord - 1, HalfWord - n >> : n \in 1 .. MaxNearCount }

\* VkSurfaceCapabilitiesKHR: minImageCount is at least one, maxImageCount is
\* zero (no limit) or at least minImageCount
SurfaceCapabilities ==
  { c \in [minImageCount : NearImageCounts,
           maxImageCount : {Zero} \cup NearImageCounts] :
      c.maxImageCount = Zero \/ ~Less(c.maxImageCount, c.minImageCount) }

PresentModes ==
  { "VK_PRESENT_MODE_IMMEDIATE_KHR", "VK_PRESENT_MODE_MAILBOX_KHR",
    "VK_PRESENT_MODE_FIFO_KHR", "VK_PRESENT_MODE_FIFO_RELAXED_KHR",
    "VK_PRESENT_MODE_SHARED_DEMAND_REFRESH_KHR",
    "VK_PRESENT_MODE_SHARED_CONTINUOUS_REFRESH_KHR" }

\* surface_info_->present_modes of a suitable device: not empty
PresentModeLists ==
  UNION { [1 .. n -> PresentModes] : n \in 1 .. MaxPresentModes }

\* the array priority with FIFO and MAILBOX exchanged
priority_FifoLast ==
  << "VK_PRESENT_MODE_IMMEDIATE_KHR", "VK_PRESENT_MODE_FIFO_RELAXED_KHR",
     "VK_PRESENT_MODE_MAILBOX_KHR", "VK_PRESENT_MODE_FIFO_KHR" >>

\* ChoosePresentMode's array priority
priority ==
  << "VK_PRESENT_MODE_IMMEDIATE_KHR", "VK_PRESENT_MODE_FIFO_RELAXED_KHR",
     "VK_PRESENT_MODE_FIFO_KHR", "VK_PRESENT_MODE_MAILBOX_KHR" >>

\* std::distance(priority.begin(), std::find(..., mode)); Len(priority) when
\* the mode is not in priority
PriorityIndex(mode) ==
  IF \E p \in DOMAIN priority : priority[p] = mode
  THEN (CHOOSE p \in DOMAIN priority : priority[p] = mode) - 1
  ELSE Len(priority)

\* ChoosePresentMode's loop from index i (1-based) on
RECURSIVE ChoosePresentModeLoop(_, _, _, _)
ChoosePresentModeLoop(modes, i, best_index, best_score) ==
  IF i > Len(modes)
  THEN best_index
  ELSE LET score == PriorityIndex(modes[i]) IN
       IF score # Len(priority) /\ score > best_score
       THEN ChoosePresentModeLoop(modes, i + 1, i, score)
       ELSE ChoosePresentModeLoop(modes, i + 1, best_index, best_score)

ChoosePresentMode(modes) == modes[ChoosePresentModeLoop(modes, 1, 1, 0 - 1)]

FamilyIndices == 0 .. MaxFamilyIndex

\* add_queue_family without the search for an entry of the same family
add_queue_family_NoFind(queue_create_infos, idx) ==
  Append(queue_create_infos, [queueFamilyIndex |-> idx, queueCount |-> 1])

\* CreateDevice's lambda add_queue_family
add_queue_family(queue_create_infos, idx) ==
  IF \E i \in DOMAIN queue_create_infos :
       queue_create_infos[i].queueFamilyIndex = idx
  THEN queue_create_infos
  ELSE Append(queue_create_infos, [queueFamilyIndex |-> idx, queueCount |-> 1])

\* CreateSwapChain's local image_count
ImageCount(capabilities) ==
  LET image_count == Ui32(PlusOne(capabilities.minImageCount)) IN
  IF Less(Zero, capabilities.maxImageCount)
       /\ Less(capabilities.maxImageCount, image_count)
  THEN capabilities.maxImageCount
  ELSE image_count

SwapInit ==
  \E capabilities \in SurfaceCapabilities, modes \in PresentModeLists,
     graphics_fi_ \in FamilyIndices, present_fi_ \in FamilyIndices :
    swap = [pc |-> "CreateDevice", capabilities |-> capabilities,
            present_modes |-> modes, graphics_fi_ |-> graphics_fi_,
            present_fi_ |-> present_fi_, queue_create_infos |-> << >>,
            create_info |-> [sType |-> "none"]]

CreateDevice ==
  /\ swap.pc = "CreateDevice"
  /\ swap' = [swap EXCEPT
                !.pc = "CreateSwapChain",
                !.queue_create_infos =
                  add_queue_family(add_queue_family(@, swap.graphics_fi_),
                                   swap.present_fi_)]
  /\ UNCHANGED <<appVars, tex, pick, rate, surf, obj, stc, model>>

CreateSwapChain ==
  /\ swap.pc = "CreateSwapChain"
  /\ LET queue_family_indices == << swap.graphics_fi_, swap.present_fi_ >>
         concurrent == queue_family_indices[1] # queue_family_indices[2]
     IN
     swap' = [swap EXCEPT
                !.pc = "created",
                !.create_info =
                  [sType |-> "VK_STRUCTURE_TYPE_SWAPCHAIN_CREATE_INFO_KHR",
                   minImageCount |-> ImageCount(swap.capabilities),
                   imageSharingMode |->
                     IF concurrent THEN "VK_SHARING_MODE_CONCURRENT"
                     ELSE "VK_SHARING_MODE_EXCLUSIVE",
                   queueFamilyIndexCount |->
                     IF concurrent THEN Len(queue_family_indices) ELSE 0,
                   pQueueFamilyIndices |->
                     IF concurrent THEN queue_family_indices ELSE << >>,
                   presentMode |-> ChoosePresentMode(swap.present_modes)]]
  /\ UNCHANGED <<appVars, tex, pick, rate, surf, obj, stc, model>>

InitSwapChain ==
  /\ IdleApp /\ IdlePure /\ obj = IdleObj /\ stc = IdleStc /\ SwapInit
  /\ model = IdleModel

NextSwapChain ==
  \/ CreateDevice
  \/ CreateSwapChain

SpecSwapChain == InitSwapChain /\ [][NextSwapChain]_vars

PreferredModes ==
  << "VK_PRESENT_MODE_MAILBOX_KHR", "VK_PRESENT_MODE_FIFO_KHR",
     "VK_PRESENT_MODE_FIFO_RELAXED_KHR", "VK_PRESENT_MODE_IMMEDIATE_KHR" >>

Available(modes) == { modes[i] : i \in DOMAIN modes }

\* C27: ChoosePresentMode returns a member of the list of available modes:
\* MAILBOX if it is available, else FIFO, else FIFO_RELAXED, else IMMEDIATE,
\* and the first mode of the list when none of the four is available.
C27_PresentMode ==
  swap.pc = "created"
    => LET modes == swap.present_modes
           chosen == swap.create_info.presentMode
           ranks == { r \in DOMAIN PreferredModes :
                        PreferredModes[r] \in Available(modes) }
       IN
       /\ chosen \in Available(modes)
       /\ ranks # {}
            => chosen = PreferredModes[CHOOSE r \in ranks :
                                         \A q \in ranks : r <= q]
       /\ ranks = {} => chosen = modes[1]

\* FIFO, the last mode of a list that starts with FIFO_RELAXED, was chosen
C27_Witness ==
  /\ swap.pc = "created"
  /\ Len(swap.present_modes) = MaxPresentModes
  /\ swap.present_modes[1] = "VK_PRESENT_MODE_FIFO_RELAXED_KHR"
  /\ swap.present_modes[Len(swap.present_modes)] = "VK_PRESENT_MODE_FIFO_KHR"
  /\ swap.create_info.presentMode = "VK_PRESENT_MODE_FIFO_KHR"

\* C28: CreateDevice requests one queue for each distinct family among the
\* graphics and the present family, with no family index twice, and
\* CreateSwapChain uses CONCURRENT sharing with both indices exactly when the
\* two differ, EXCLUSIVE otherwise.
C28_QueueFamilies ==
  LET infos == swap.queue_create_infos
      same == swap.graphics_fi_ = swap.present_fi_
  IN
  /\ swap.pc \in {"CreateSwapChain", "created"}
       => /\ Len(infos) = IF same THEN 1 ELSE 2
          /\ { infos[i].queueFamilyIndex : i \in DOMAIN infos } =
               { swap.graphics_fi_, swap.present_fi_ }
          /\ \A i \in DOMAIN infos : infos[i].queueCount = 1
          /\ \A i, j \in DOMAIN infos :
               i # j => infos[i].queueFamilyIndex # infos[j].queueFamilyIndex
  /\ swap.pc = "created"
       => /\ (swap.create_info.imageSharingMode = "VK_SHARING_MODE_CONCURRENT")
               <=> ~same
          /\ (swap.create_info.imageSharingMode = "VK_SHARING_MODE_EXCLUSIVE")
               <=> same
          /\ ~same => swap.create_info.pQueueFamilyIndices =
                        << swap.graphics_fi_, swap.present_fi_ >>

\* a swap chain shared by two families, and one used by a single family that
\* is not family 0
C28_Witness ==
  /\ swap.pc = "created"
  /\ swap.graphics_fi_ = MaxFamilyIndex
  /\ swap.present_fi_ = 0
  /\ Len(swap.queue_create_infos) = 2
  /\ swap.create_info.imageSharingMode = "VK_SHARING_MODE_CONCURRENT"

---------------------------------------------------------------------------
\* LoadModel on the shapes tinyobj::LoadObj returns (SpecModel).

\* tinyobj::index_t
index_t ==
  [vertex_index : {0, 1}, texcoord_index : {0, 1}, normal_index : {0, 1}]

\* the face indices of all shapes, in model order
FaceLists == UNION { [1 .. n -> index_t] : n \in 0 .. MaxFaceIndices }

\* operator== that does not compare normal_index
IndexEq_NoNormal(a, b) ==
  a.vertex_index = b.vertex_index /\ a.texcoord_index = b.texcoord_index

\* tinyobj::operator==(const index_t&, const index_t&)
IndexEq(a, b) ==
  /\ a.vertex_index = b.vertex_index
  /\ a.texcoord_index = b.texcoord_index
  /\ a.normal_index = b.normal_index

\* the Vertex LoadModel builds: the offsets into attrib.vertices and
\* attrib.texcoords its fields are read from
MakeVertex(model_index) ==
  LET vertex_offset == 3 * model_index.vertex_index
      texcoord_offset == 2 * model_index.texcoord_index
  IN
  [pos |-> << vertex_offset, vertex_offset + 1, vertex_offset + 2 >>,
   tex_coord |-> << texcoord_offset, texcoord_offset + 1 >>]

\* the body of the inner loop for one model_index; index_remap is the set of
\* the map's entries
LoadIndex(m, model_index) ==
  LET found == { entry \in m.index_remap : IndexEq(entry.key, model_index) }
  IN
  IF found = {}
  THEN LET index == Len(m.vertices_) IN
       [m EXCEPT
          !.vertices_ = Append(@, MakeVertex(model_index)),
          !.index_remap = @ \cup {[key |-> model_index, value |-> index]},
          !.indices_ = Append(@, index)]
  ELSE [m EXCEPT
          !.indices_ = Append(@, (CHOOSE entry \in found : TRUE).value)]

\* the inner loop over shape.mesh.indices from position i on
RECURSIVE LoadShape(_, _, _)
LoadShape(m, indices, i) ==
  IF i > Len(indices)
  THEN m
  ELSE LoadShape(LoadIndex(m, indices[i]), indices, i + 1)

\* the shapes: the face indices before and after position split
ModelInit ==
  \E faces \in FaceLists :
    \E split \in 0 .. Len(faces) :
      model = [pc |-> "LoadModel",
               shapes |-> << SubSeq(faces, 1, split),
                             SubSeq(faces, split + 1, Len(faces)) >>,
               shape |-> 1, index_remap |-> {}, vertices_ |-> << >>,
               indices_ |-> << >>]

\* one iteration of LoadModel's loop over shapes
LoadModel ==
  /\ model.pc = "LoadModel"
  /\ LET loaded == LoadShape(model, model.shapes[model.shape], 1) IN
     model' = [loaded EXCEPT
                 !.shape = @ + 1,
                 !.pc = IF model.shape = Len(model.shapes)
                        THEN "loaded" ELSE @]
  /\ UNCHANGED <<appVars, tex, pick, rate, surf, obj, stc, swap>>

InitModel ==
  /\ IdleApp /\ IdlePure /\ obj = IdleObj /\ stc = IdleStc /\ swap = IdleSwap
  /\ ModelInit

NextModel == LoadModel

SpecModel == InitModel /\ [][NextModel]_vars

\* the face indices of the model, in model order
ModelFaces == model.shapes[1] \o model.shapes[2]

\* the positions of ModelFaces at which a triple occurs for the first time
FirstOccurrences ==
  { i \in DOMAIN ModelFaces :
      \A j \in 1 .. (i - 1) : ModelFaces[j] # ModelFaces[i] }

\* C29: after LoadModel, indices_ has one entry per face index in model
\* order, every entry is less than vertices_.size(), two face indices have the
\* same entry exactly when their triples are equal, and vertices_ has one
\* vertex per distinct triple, in the order of first occurrence.
C29_LoadModelDedup ==
  model.pc = "loaded"
    => LET faces == ModelFaces
           indices == model.indices_
       IN
       /\ Len(indices) = Len(faces)
       /\ \A i \in DOMAIN indices :
            /\ indices[i] >= 0
            /\ indices[i] < Len(model.vertices_)
            /\ model.vertices_[indices[i] + 1] = MakeVertex(faces[i])
       /\ \A i, j \in DOMAIN indices :
            (indices[i] = indices[j]) <=> (faces[i] = faces[j])
       /\ Len(model.vertices_) = Cardinality(FirstOccurrences)
       /\ \A i \in FirstOccurrences :
            indices[i] =
              Cardinality({ j \in FirstOccurrences : j < i })

\* a model whose first and last face index are the same triple, with a
\* triple that differs from it in normal_index only in the second shape
C29_Witness ==
  /\ model.pc = "loaded"
  /\ Len(ModelFaces) = MaxFaceIndices
  /\ Len(model.shapes[1]) = 1
  /\ ModelFaces[1] = ModelFaces[MaxFaceIndices]
  /\ ModelFaces[2].vertex_index = ModelFaces[1].vertex_index
  /\ ModelFaces[2].texcoord_index = ModelFaces[1].texcoord_index
  /\ ModelFaces[2].normal_index # ModelFaces[1].normal_index
  /\ model.indices_[MaxFaceIndices] = 0
  /\ Len(model.vertices_) = 2

===========================================================================
